---- MODULE Spec2Model ----
(***************************************************************************)
(* A model of rlox: the single-pass bytecode compiler (compiler.rs), the   *)
(* value representation and its binary format (value.rs), the stack VM     *)
(* (vm.rs), the native table (native.rs), the error kinds and their exit   *)
(* codes (error.rs) and the command-line driver with its REPL (main.rs).   *)
(*                                                                         *)
(* Representation.                                                         *)
(*  - A Rust String is its sequence of UTF-8 bytes (a Seq of 0..255).      *)
(*  - A Gc pointer is an index: a Function (Gc<GcCell<FunctionInner>>) is  *)
(*    an index into the sequence "functions" (the heap of function         *)
(*    templates), a Gc<Closure> is a number drawn from "next_id".          *)
(*  - A Value is a record of one shape for every tag; the fields a tag     *)
(*    does not use hold a fixed filler.                                    *)
(*  - An f64 is the fraction n/d with d >= 1 in lowest terms; d = 0 holds  *)
(*    the non-finite values: 1/0 is +inf, -1/0 is -inf, 0/0 is NaN.        *)
(*    Rounding and the negative zero are not modelled.                     *)
(*  - The text a number prints as is left to the formatter of the host:    *)
(*    a printed number is kept on stdout as the number.                    *)
(***************************************************************************)
EXTENDS Integers, Sequences, FiniteSets, TLC

VARIABLES
    pc,          \* where main is: "start", "prompt", "compile", "interpret", "run", "exited"
    args,        \* the parsed command line (Args) and the file the script path names
    input,       \* the source unit being compiled: an index into Sources, or a byte file
    bytecode,    \* the FunctionInner compile() returned, waiting to be written or interpreted
    lines_read,  \* how many REPL lines have been read
    frames,      \* Vm.frames
    stack,       \* Vm.stack
    globals,     \* Vm.globals
    functions,   \* the heap of function templates every Function value points into
    next_id,     \* the next fresh Gc<Closure>
    stdout,      \* what Print has written, one entry per line
    output,      \* the bytes bytecode.write has written under --compile
    error,       \* the Err main returned with (NoError while there is none)
    exit_code,   \* the exit code of the process once pc = "exited"
    last_op,     \* the instruction the VM executed last and what it saw (history, for the properties)
    ser_in,      \* serialization round trip: the chunk to write
    ser_bytes,   \* serialization round trip: the bytes written
    ser_out,     \* serialization round trip: what read returned
    lexer,       \* the Lexer: its fields and the byte stream it reads
    item,        \* what the last call of Lexer::next returned
    ended,       \* how many calls of Lexer::next have returned None
    collected    \* the Gc allocations (closures and functions) the collector has freed

vars == <<pc, args, input, bytecode, lines_read, frames, stack, globals, functions,
          next_id, stdout, output, error, exit_code, last_op, ser_in, ser_bytes, ser_out,
          lexer, item, ended, collected>>

vm_vars == <<frames, stack, globals, functions, next_id, stdout>>
ser_vars == <<ser_in, ser_bytes, ser_out>>
lex_vars == <<lexer, item, ended>>

-----------------------------------------------------------------------------
(* Bounds of the model *)

\* The REPL reads at most this many non-empty lines before it is given the empty line.
MaxReplLines == 2

-----------------------------------------------------------------------------
(* Bytes and strings *)

Byte == 0..255

\* "clock", the name the native table registers
S_clock == <<99, 108, 111, 99, 107>>
\* "a", "b", "f", "g", "x": the identifiers of the programs below
S_a == <<97>>
S_b == <<98>>
S_f == <<102>>
S_g == <<103>>
S_x == <<120>>
\* "hi": a string literal
S_hi == <<104, 105>>
\* the texts Display writes
S_nil == <<110, 105, 108>>
S_true == <<116, 114, 117, 101>>
S_false == <<102, 97, 108, 115, 101>>
S_script == <<60, 115, 99, 114, 105, 112, 116, 62>>
S_native_fn == <<60, 110, 97, 116, 105, 118, 101, 32, 102, 110, 62>>
\* "<fn " and ">", the frame the specification puts around a function's name
S_fn_open == <<60, 102, 110, 32>>
S_fn_close == <<62>>

-----------------------------------------------------------------------------
(* Values (value.rs) *)

Value(tag, b, n, d, s, id, fn) ==
    [tag |-> tag, b |-> b, n |-> n, d |-> d, s |-> s, id |-> id, fn |-> fn]

NilV == Value("Nil", FALSE, 0, 1, <<>>, 0, 0)
BoolV(b) == Value("Bool", b, 0, 1, <<>>, 0, 0)
StringV(s) == Value("String", FALSE, 0, 1, s, 0, 0)
\* Value::Function: fn is the index of the template in the heap
FunctionV(fn) == Value("Function", FALSE, 0, 1, <<>>, 0, fn)
\* Value::Closure(Gc<Closure>): id is the identity of the Gc<Closure>, fn its function
ClosureV(id, fn) == Value("Closure", FALSE, 0, 1, <<>>, id, fn)
\* Value::NativeFn: id is the index of the function in the FUNCTIONS table
NativeFnV(id) == Value("NativeFn", FALSE, 0, 1, <<>>, id, 0)

Abs(i) == IF i < 0 THEN -i ELSE i
Sign(i) == IF i < 0 THEN -1 ELSE IF i > 0 THEN 1 ELSE 0

RECURSIVE Gcd(_, _)
Gcd(i, j) == IF j = 0 THEN i ELSE Gcd(j, i % j)

\* the f64 n/d, in lowest terms with d >= 0 (d = 0: the sign of n alone remains)
NumberV(n, d) ==
    LET s == IF d < 0 THEN -1 ELSE 1
        g == Gcd(Abs(n), Abs(d))
    IN  IF d = 0 THEN Value("Number", FALSE, Sign(n), 0, <<>>, 0, 0)
        ELSE Value("Number", FALSE, (s * n) \div g, (s * d) \div g, <<>>, 0, 0)

IsNaN(v) == v.d = 0 /\ v.n = 0

\* f64 arithmetic and comparison on two Number values
NumAdd(l, r) ==
    IF l.d = 0 /\ r.d = 0 THEN (IF l.n = r.n THEN l ELSE NumberV(0, 0))
    ELSE IF l.d = 0 THEN l
    ELSE IF r.d = 0 THEN r
    ELSE NumberV(l.n * r.d + r.n * l.d, l.d * r.d)
NumNeg(v) == NumberV(-v.n, v.d)
NumSub(l, r) == NumAdd(l, NumNeg(r))
NumMul(l, r) ==
    IF l.d = 0 \/ r.d = 0 THEN NumberV(Sign(l.n) * Sign(r.n), 0)
    ELSE NumberV(l.n * r.n, l.d * r.d)
NumDiv(l, r) ==
    IF IsNaN(l) \/ IsNaN(r) THEN NumberV(0, 0)
    ELSE IF r.d = 0 THEN (IF l.d = 0 THEN NumberV(0, 0) ELSE NumberV(0, 1))
    ELSE IF r.n = 0 THEN NumberV(Sign(l.n), 0)
    ELSE IF l.d = 0 THEN NumberV(Sign(l.n) * Sign(r.n), 0)
    ELSE NumberV(l.n * r.d, l.d * r.n)
NumEq(l, r) == ~IsNaN(l) /\ ~IsNaN(r) /\ l.n = r.n /\ l.d = r.d
NumLess(l, r) ==
    /\ ~IsNaN(l) /\ ~IsNaN(r)
    /\ IF l.d = 0 \/ r.d = 0 THEN (l.d = 0 /\ l.n < 0 /\ ~(r.d = 0 /\ r.n < 0))
                                   \/ (r.d = 0 /\ r.n > 0 /\ ~(l.d = 0 /\ l.n > 0))
       ELSE l.n * r.d < r.n * l.d
NumLessEqual(l, r) == NumLess(l, r) \/ NumEq(l, r)

\* a truthiness that takes the number 0 and the empty string for false
as_bool_of_c(v) ==
    CASE v.tag = "Nil" -> FALSE
      [] v.tag = "Bool" -> v.b
      [] v.tag = "Number" -> v.n # 0
      [] v.tag = "String" -> v.s # <<>>
      [] OTHER -> TRUE

\* Value::as_bool
as_bool(v) ==
    CASE v.tag = "Nil" -> FALSE
      [] v.tag = "Bool" -> v.b
      [] OTHER -> TRUE

\* a PartialEq that takes two strings for equal whatever they hold
ValueEqByTag(l, r) ==
    CASE l.tag = "Nil" /\ r.tag = "Nil" -> TRUE
      [] l.tag = "Bool" /\ r.tag = "Bool" -> l.b = r.b
      [] l.tag = "Number" /\ r.tag = "Number" -> NumEq(l, r)
      [] l.tag = "Closure" /\ r.tag = "Closure" -> l.id = r.id
      [] l.tag = "String" /\ r.tag = "String" -> TRUE
      [] OTHER -> FALSE

\* impl PartialEq for Value
ValueEq(l, r) ==
    CASE l.tag = "Nil" /\ r.tag = "Nil" -> TRUE
      [] l.tag = "Bool" /\ r.tag = "Bool" -> l.b = r.b
      [] l.tag = "Number" /\ r.tag = "Number" -> NumEq(l, r)
      [] l.tag = "Closure" /\ r.tag = "Closure" -> l.id = r.id
      [] l.tag = "String" /\ r.tag = "String" -> l.s = r.s
      [] OTHER -> FALSE

\* FunctionInner: name is Option<Gc<String>> (has_name says whether it is Some)
FunctionInner(arity, chunk, lns, constants, has_name, name) ==
    [arity |-> arity, chunk |-> chunk, lines |-> lns, constants |-> constants,
     has_name |-> has_name, name |-> name]

\* FunctionInner::default()
FunctionDefault == FunctionInner(0, <<>>, <<>>, <<>>, FALSE, <<>>)

\* what one line of stdout holds: a text, or a number in the host's formatting
TextLine(s) == [kind |-> "text", s |-> s, n |-> 0, d |-> 1]
NumberLine(v) == [kind |-> "number", s |-> <<>>, n |-> v.n, d |-> v.d]

\* impl Display for FunctionInner
DisplayFunction(f) == IF f.has_name THEN f.name ELSE S_script

\* impl Display for Value (closures and functions through the heap "fns")
Display(v, fns) ==
    CASE v.tag = "Nil" -> TextLine(S_nil)
      [] v.tag = "Bool" -> TextLine(IF v.b THEN S_true ELSE S_false)
      [] v.tag = "Number" -> NumberLine(v)
      [] v.tag = "Closure" -> TextLine(DisplayFunction(fns[v.fn]))
      [] v.tag = "Function" -> TextLine(DisplayFunction(fns[v.fn]))
      [] v.tag = "NativeFn" -> TextLine(S_native_fn)
      [] v.tag = "String" -> TextLine(v.s)

-----------------------------------------------------------------------------
(* Opcodes (vm.rs) *)

\* enum OpCode, #[repr(u8)]: the discriminant of a variant is its position, from 0
OpCodeNames == <<"Add", "Call", "Closure", "Constant", "DefineGlobal", "Div", "Equal",
                 "False", "GetGlobal", "GetLocal", "Greater", "GreaterEqual", "Jump",
                 "JumpIfFalsePeek", "JumpIfFalsePop", "JumpIfTruePeek", "Less",
                 "LessEqual", "Loop", "Mul", "Neg", "Nil", "Not", "Pop", "Print",
                 "Return", "SetGlobal", "SetLocal", "Sub", "True">>

\* opcode as u8
Op(name) == (CHOOSE i \in 1..Len(OpCodeNames) : OpCodeNames[i] = name) - 1

IsOpCode(byte) == byte + 1 \in 1..Len(OpCodeNames)

\* the variant a byte transmutes to (defined for the bytes that are discriminants)
OpName(byte) == OpCodeNames[byte + 1]

-----------------------------------------------------------------------------
(* Errors (error.rs) *)

\* enum Error. msg is the format string of a Compile or Runtime error and fmt_args
\* what fills its {} places; call_stack is the snapshot a Runtime error carries.
Error(kind, msg, fmt_args, line, call_stack) ==
    [kind |-> kind, msg |-> msg, fmt_args |-> fmt_args, line |-> line,
     call_stack |-> call_stack]

NoError == Error("None", "", <<>>, 0, <<>>)
CompileError(msg, line) == Error("Compile", msg, <<>>, line, <<>>)
RuntimeError(msg, fmt_args, call_stack) == Error("Runtime", msg, fmt_args, 0, call_stack)
\* the kinds that carry nothing the model reads
PlainError(kind) == Error(kind, "", <<>>, 0, <<>>)
\* a Rust panic (expect, unimplemented!, an index out of bounds): not an Error value
Panic(msg) == Error("Panic", msg, <<>>, 0, <<>>)

ErrorKinds == {"Compile", "CompileRepl", "Decode", "Io", "Parse", "ParseFloat",
               "Runtime", "Utf8"}

-----------------------------------------------------------------------------
(* The AST (ast.rs) *)

ENumber(value, line) == [kind |-> "Number", value |-> value, line |-> line]
EString(value, last_line) == [kind |-> "String", value |-> value, last_line |-> last_line]
ETrue(line) == [kind |-> "True", line |-> line]
EFalse(line) == [kind |-> "False", line |-> line]
ENil(line) == [kind |-> "Nil", line |-> line]
EVariable(name, line) == [kind |-> "Variable", name |-> name, line |-> line]
\* Expr::Assign with rcpt: None (the parser of the core builds no receiver)
EAssign(name, name_line, value) ==
    [kind |-> "Assign", name |-> name, name_line |-> name_line, value |-> value]
EBinary(lhs, op, rhs) == [kind |-> "Binary", lhs |-> lhs, op |-> op, rhs |-> rhs]
EUnary(op, inner) == [kind |-> "Unary", op |-> op, inner |-> inner]
ECall(rcpt, call_args, last_line) ==
    [kind |-> "Call", rcpt |-> rcpt, args |-> call_args, last_line |-> last_line]

\* init, else_ and expr are Options: has_init, has_else and has_expr say whether they are Some
SVar(name, name_line, has_init, init, last_line) ==
    [kind |-> "Var", name |-> name, name_line |-> name_line, has_init |-> has_init,
     init |-> init, last_line |-> last_line]
SExpr(expr, last_line) == [kind |-> "Expr", expr |-> expr, last_line |-> last_line]
\* params: a sequence of <<line, name>>
SFun(name, name_line, params, body, last_line) ==
    [kind |-> "Fun", name |-> name, name_line |-> name_line, params |-> params,
     body |-> body, last_line |-> last_line]
SIf(cond, right_paren_line, then, has_else, else_) ==
    [kind |-> "If", cond |-> cond, right_paren_line |-> right_paren_line, then |-> then,
     has_else |-> has_else, else_ |-> else_]
SPrint(expr, last_line) == [kind |-> "Print", expr |-> expr, last_line |-> last_line]
SReturn(keyword_line, has_expr, expr, last_line) ==
    [kind |-> "Return", keyword_line |-> keyword_line, has_expr |-> has_expr,
     expr |-> expr, last_line |-> last_line]
SWhile(cond, right_paren_line, body) ==
    [kind |-> "While", cond |-> cond, right_paren_line |-> right_paren_line, body |-> body]
SBlock(stmts, last_line) == [kind |-> "Block", stmts |-> stmts, last_line |-> last_line]

\* Expr::last_line
RECURSIVE ExprLastLine(_)
ExprLastLine(e) ==
    CASE e.kind \in {"True", "False", "Nil", "Number", "Variable"} -> e.line
      [] e.kind \in {"Call", "String"} -> e.last_line
      [] e.kind = "Assign" -> ExprLastLine(e.value)
      [] e.kind = "Binary" -> ExprLastLine(e.rhs)
      [] e.kind = "Unary" -> ExprLastLine(e.inner)

\* Stmt::last_line
RECURSIVE StmtLastLine(_)
StmtLastLine(s) ==
    CASE s.kind \in {"Fun", "Var", "Expr", "Print", "Return", "Block"} -> s.last_line
      [] s.kind = "If" -> IF s.has_else THEN StmtLastLine(s.else_) ELSE StmtLastLine(s.then)
      [] s.kind = "While" -> StmtLastLine(s.body)

-----------------------------------------------------------------------------
(* The compiler (compiler.rs) *)

\* u8::MAX and u16::MAX
U8Max == 255
U16Max == 65535

\* struct Local: depth is an Option (has_depth says whether it is Some)
Local(name, has_depth, depth) == [name |-> name, has_depth |-> has_depth, depth |-> depth]

\* a compiler of a function that starts with a local named a
CompilerNewWithLocal(fn_type, heap) ==
    [function |-> FunctionDefault,
     fn_type |-> fn_type,
     locals |-> IF fn_type = "Script" THEN <<Local(<<>>, TRUE, 0)>>
                ELSE <<Local(<<>>, TRUE, 0), Local(S_a, TRUE, 0)>>,
     scope_depth |-> IF fn_type = "Script" THEN 0 ELSE 1,
     heap |-> heap,
     err |-> NoError,
     ret |-> 0]

\* Compiler::new. heap is the heap of function templates the compiler allocates
\* finished functions in (FunctionInner::wrap), err the Err a step returned with;
\* ret holds the u8 a step returned.
CompilerNew(fn_type, heap) ==
    [function |-> FunctionDefault,
     fn_type |-> fn_type,
     locals |-> <<Local(<<>>, TRUE, 0)>>,
     scope_depth |-> IF fn_type = "Script" THEN 0 ELSE 1,
     heap |-> heap,
     err |-> NoError,
     ret |-> 0]

\* a step that returned Err: the ? of every caller hands the Err on
Failed(c) == c.err.kind # "None"
Fail(c, err) == [c EXCEPT !.err = err]

\* FunctionInner::add_code
add_code(f, line, code) ==
    [f EXCEPT !.lines = Append(f.lines, line), !.chunk = Append(f.chunk, code)]

\* Compiler::emit
emit(c, line, opcode) ==
    IF Failed(c) THEN c
    ELSE [c EXCEPT !.function = add_code(c.function, line, Op(opcode))]

\* Compiler::emit_with_arg
emit_with_arg(c, line, opcode, arg) ==
    IF Failed(c) THEN c
    ELSE LET c1 == emit(c, line, opcode)
         IN  [c1 EXCEPT !.function = add_code(c1.function, line, arg)]

\* a make_constant that returns the length of the pool after the push as the index
make_constant_off_by_one(c, line, value) ==
    IF Failed(c) THEN c
    ELSE [c EXCEPT !.function.constants = Append(c.function.constants, value),
                   !.ret = Len(c.function.constants) + 1]

\* a make_constant that truncates the index to a byte instead of failing
make_constant_wrapping(c, line, value) ==
    IF Failed(c) THEN c
    ELSE [c EXCEPT !.function.constants = Append(c.function.constants, value),
                   !.ret = Len(c.function.constants) % 256]

\* Compiler::make_constant (with FunctionInner::add_constant): ret is the index
make_constant(c, line, value) ==
    IF Failed(c) THEN c
    ELSE LET c1 == [c EXCEPT !.function.constants = Append(c.function.constants, value)]
             idx == Len(c1.function.constants) - 1
         IN  IF idx > U8Max
             THEN Fail(c1, CompileError("Too many constants in one chunk.", line))
             ELSE [c1 EXCEPT !.ret = idx]

\* Compiler::emit_constant
emit_constant(c, line, opcode, value) ==
    LET c1 == make_constant(c, line, value)
    IN  emit_with_arg(c1, line, opcode, c1.ret)

\* Compiler::emit_jump; the Jump it returns is JumpOf of the state it leaves
emit_jump(c, line, opcode) ==
    IF Failed(c) THEN c
    ELSE LET c1 == emit(c, line, opcode)
             f1 == add_code(c1.function, line, 0)
         IN  [c1 EXCEPT !.function = add_code(f1, line, 0)]
JumpOf(c) == Len(c.function.chunk) - 2

\* u16::to_le_bytes
U16LeBytes(n) == <<n % 256, n \div 256>>
\* u16::from_le_bytes
U16FromLe(b1, b2) == b1 + 256 * b2

\* a patch_jump whose splice inserts the offset before the placeholder
patch_jump_inserting(c, line, from_idx) ==
    IF Failed(c) THEN c
    ELSE [c EXCEPT !.function.chunk =
              SubSeq(c.function.chunk, 1, from_idx)
              \o U16LeBytes(Len(c.function.chunk) - from_idx - 2)
              \o SubSeq(c.function.chunk, from_idx + 1, Len(c.function.chunk))]

\* Compiler::patch_jump
patch_jump(c, line, from_idx) ==
    IF Failed(c) THEN c
    ELSE LET offset == Len(c.function.chunk) - from_idx - 2
         IN  IF offset > U16Max
             THEN Fail(c, CompileError("Too much code to jump over.", line))
             ELSE [c EXCEPT !.function.chunk =
                       [i \in DOMAIN c.function.chunk |->
                           IF i = from_idx + 1 THEN U16LeBytes(offset)[1]
                           ELSE IF i = from_idx + 2 THEN U16LeBytes(offset)[2]
                           ELSE c.function.chunk[i]]]

\* an emit_loop that measures the offset from the Loop opcode
emit_loop_from_opcode(c, line, loop_start) ==
    IF Failed(c) THEN c
    ELSE LET c1 == emit(c, line, "Loop")
             offset == Len(c1.function.chunk) - loop_start
             f1 == add_code(c1.function, line, U16LeBytes(offset)[1])
         IN  [c1 EXCEPT !.function = add_code(f1, line, U16LeBytes(offset)[2])]

\* Compiler::emit_loop
emit_loop(c, line, loop_start) ==
    IF Failed(c) THEN c
    ELSE LET c1 == emit(c, line, "Loop")
             offset == Len(c1.function.chunk) - loop_start + 2
         IN  IF offset > U16Max
             THEN Fail(c1, CompileError("Loop body too large.", line))
             ELSE LET f1 == add_code(c1.function, line, U16LeBytes(offset)[1])
                  IN  [c1 EXCEPT !.function = add_code(f1, line, U16LeBytes(offset)[2])]

\* an emit_return that leaves out the Return
emit_return_nil_only(c, line) == emit(c, line, "Nil")

\* Compiler::emit_return
emit_return(c, line) ==
    IF c.fn_type = "Initializer"
    THEN emit(emit_with_arg(c, line, "GetLocal", 0), line, "Return")
    ELSE emit(emit(c, line, "Nil"), line, "Return")

\* Compiler::finalize
finalize(c, line) == emit_return(c, line)

\* Compiler::begin_scope
begin_scope(c) == IF Failed(c) THEN c ELSE [c EXCEPT !.scope_depth = c.scope_depth + 1]

\* the while loop of Compiler::end_scope
RECURSIVE end_scope_loop(_, _)
end_scope_loop(c, line) ==
    IF Failed(c) \/ c.locals = <<>> THEN c
    ELSE LET local == c.locals[Len(c.locals)]
         IN  IF ~local.has_depth THEN Fail(c, Panic("undefined local at end of scope"))
             ELSE IF local.depth > c.scope_depth
             THEN end_scope_loop(
                      [emit(c, line, "Pop") EXCEPT !.locals = SubSeq(c.locals, 1, Len(c.locals) - 1)],
                      line)
             ELSE c

\* an end_scope that only leaves the scope
end_scope_depth_only(c, line) ==
    IF Failed(c) THEN c ELSE [c EXCEPT !.scope_depth = c.scope_depth - 1]

\* Compiler::end_scope
end_scope(c, line) ==
    IF Failed(c) THEN c
    ELSE end_scope_loop([c EXCEPT !.scope_depth = c.scope_depth - 1], line)

\* a walk that does not stop at the locals of the outer scopes
AlreadyDeclaredAnywhere(c, name) == \E i \in DOMAIN c.locals : c.locals[i].name = name

\* the loop of Compiler::declare_variable: some local of the scope being declared in
\* already has the name (the walk from the back stops at the first local of an outer scope)
AlreadyDeclared(c, name) ==
    \E i \in DOMAIN c.locals :
        /\ c.locals[i].name = name
        /\ \A j \in i..Len(c.locals) :
               ~(c.locals[j].has_depth /\ c.locals[j].depth < c.scope_depth)

\* Compiler::declare_variable: ret is the constant index of a global's name (0 for a local)
declare_variable(c, name_line, name, initialized) ==
    IF Failed(c) THEN c
    ELSE IF c.scope_depth > 0
    THEN IF AlreadyDeclared(c, name)
         THEN Fail(c, CompileError("Already variable with this name in this scope.", name_line))
         ELSE IF Len(c.locals) > U8Max
         THEN Fail(c, CompileError("Too many local variables in function.", name_line))
         ELSE [c EXCEPT !.locals = Append(c.locals, Local(name, initialized, IF initialized THEN c.scope_depth ELSE 0)),
                        !.ret = 0]
    ELSE make_constant(c, name_line, StringV(name))

\* Compiler::define_variable
define_variable(c, line, global) ==
    IF Failed(c) THEN c
    ELSE IF c.scope_depth > 0
    THEN IF c.locals = <<>> THEN Fail(c, Panic("no local to mark as initialized"))
         ELSE [c EXCEPT !.locals[Len(c.locals)].has_depth = TRUE,
                        !.locals[Len(c.locals)].depth = c.scope_depth]
    ELSE emit_with_arg(c, line, "DefineGlobal", global)

\* the rfind of Compiler::resolve_local: the last local with the name (0 when there is none)
LastLocalNamed(c, name) ==
    LET hits == {i \in DOMAIN c.locals : c.locals[i].name = name}
    IN  IF hits = {} THEN 0 ELSE CHOOSE i \in hits : \A j \in hits : j <= i

\* a resolve_local that does not look at the depth of the local it finds
resolve_local_any_depth(c, line, name) ==
    LET i == LastLocalNamed(c, name)
    IN  IF i = 0 THEN [err |-> NoError, found |-> FALSE, slot |-> 0]
        ELSE [err |-> NoError, found |-> TRUE, slot |-> (i - 1) % 256]

\* Compiler::resolve_local: [found, slot] or the Err
resolve_local(c, line, name) ==
    LET i == LastLocalNamed(c, name)
    IN  IF i = 0 THEN [err |-> NoError, found |-> FALSE, slot |-> 0]
        ELSE IF ~c.locals[i].has_depth
        THEN [err |-> CompileError("Can't read local variable in its own initializer.", line),
              found |-> FALSE, slot |-> 0]
        ELSE [err |-> NoError, found |-> TRUE, slot |-> (i - 1) % 256]

\* the opcode of a binary operator that is neither Or, And nor NotEqual
BinaryOpCode(op) ==
    CASE op = "Equal" -> "Equal"
      [] op = "Greater" -> "Greater"
      [] op = "GreaterEqual" -> "GreaterEqual"
      [] op = "Less" -> "Less"
      [] op = "LessEqual" -> "LessEqual"
      [] op = "Sub" -> "Sub"
      [] op = "Add" -> "Add"
      [] op = "Div" -> "Div"
      [] op = "Mul" -> "Mul"

RECURSIVE compile_expr(_, _)
RECURSIVE compile_exprs(_, _)
RECURSIVE compile_stmt(_, _)
RECURSIVE compile_stmts(_, _)
RECURSIVE declare_params(_, _)

\* the get/set of a name: GetLocal/SetLocal of its slot, or GetGlobal/SetGlobal of a new constant
\* (the first half of Expr::Assign and Expr::Variable): ret is the operand, the result's
\* "op" is chosen by the caller from is_local
ResolveName(c, line, name) ==
    LET r == resolve_local(c, line, name)
    IN  IF Failed(c) THEN [c |-> c, is_local |-> FALSE]
        ELSE IF r.err.kind # "None" THEN [c |-> Fail(c, r.err), is_local |-> FALSE]
        ELSE IF r.found THEN [c |-> [c EXCEPT !.ret = r.slot], is_local |-> TRUE]
        ELSE [c |-> make_constant(c, line, StringV(name)), is_local |-> FALSE]

\* Compiler::compile_expr
compile_expr(c, e) ==
    IF Failed(c) THEN c
    ELSE CASE e.kind = "Assign" ->
                LET r == ResolveName(c, e.name_line, e.name)
                    c1 == compile_expr(r.c, e.value)
                IN  emit_with_arg(c1, ExprLastLine(e.value),
                                  IF r.is_local THEN "SetLocal" ELSE "SetGlobal", r.c.ret)
           [] e.kind = "Binary" /\ e.op \in {"Or", "And"} ->
                LET c1 == compile_expr(c, e.lhs)
                    c2 == emit_jump(c1, ExprLastLine(e.lhs),
                                    IF e.op = "Or" THEN "JumpIfTruePeek" ELSE "JumpIfFalsePeek")
                    c3 == emit(c2, ExprLastLine(e.lhs), "Pop")
                    c4 == compile_expr(c3, e.rhs)
                IN  patch_jump(c4, ExprLastLine(e.rhs), JumpOf(c2))
           [] e.kind = "Binary" /\ e.op \notin {"Or", "And"} ->
                LET c1 == compile_expr(c, e.lhs)
                    c2 == compile_expr(c1, e.rhs)
                IN  IF e.op = "NotEqual"
                    THEN emit(emit(c2, ExprLastLine(e.rhs), "Equal"), ExprLastLine(e.rhs), "Not")
                    ELSE emit(c2, ExprLastLine(e.rhs), BinaryOpCode(e.op))
           [] e.kind = "Unary" ->
                emit(compile_expr(c, e.inner), ExprLastLine(e.inner),
                     IF e.op = "Not" THEN "Not" ELSE "Neg")
           [] e.kind = "Call" ->
                IF Len(e.args) > U8Max
                THEN Fail(c, CompileError("Can't have more than 255 arguments.",
                                          ExprLastLine(e.args[256])))
                ELSE emit_with_arg(compile_exprs(compile_expr(c, e.rcpt), e.args),
                                   e.last_line, "Call", Len(e.args))
           [] e.kind = "True" -> emit(c, e.line, "True")
           [] e.kind = "False" -> emit(c, e.line, "False")
           [] e.kind = "Nil" -> emit(c, e.line, "Nil")
           [] e.kind = "Number" -> emit_constant(c, e.line, "Constant", NumberV(e.value, 1))
           [] e.kind = "String" -> emit_constant(c, e.last_line, "Constant", StringV(e.value))
           [] e.kind = "Variable" ->
                LET r == ResolveName(c, e.line, e.name)
                IN  emit_with_arg(r.c, e.line,
                                  IF r.is_local THEN "GetLocal" ELSE "GetGlobal", r.c.ret)

\* for arg in args { self.compile_expr(arg)?; }
compile_exprs(c, es) ==
    IF es = <<>> THEN c ELSE compile_exprs(compile_expr(c, Head(es)), Tail(es))

\* for (line, param) in params { compiler.declare_variable(line, param, true)?; }
declare_params(c, params) ==
    IF params = <<>> THEN c
    ELSE declare_params(declare_variable(c, Head(params)[1], Head(params)[2], TRUE), Tail(params))

\* Compiler::compile_stmt
compile_stmt(c, s) ==
    IF Failed(c) THEN c
    ELSE CASE s.kind = "Var" ->
                LET c1 == declare_variable(c, s.name_line, s.name, FALSE)
                    c2 == IF s.has_init THEN compile_expr(c1, s.init)
                          ELSE emit(c1, s.name_line, "Nil")
                IN  define_variable(c2, s.last_line, c1.ret)
           [] s.kind = "Expr" -> emit(compile_expr(c, s.expr), s.last_line, "Pop")
           [] s.kind = "Fun" ->
                IF Len(s.params) > U8Max
                THEN Fail(c, CompileError("Can't have more than 255 parameters.", s.params[256][1]))
                ELSE LET c1 == declare_variable(c, s.name_line, s.name, TRUE)
                         n0 == [CompilerNew("Function", c1.heap) EXCEPT
                                   !.function.arity = Len(s.params),
                                   !.function.has_name = TRUE,
                                   !.function.name = s.name]
                         n1 == compile_stmts(declare_params(n0, s.params), s.body)
                         n2 == finalize(n1, s.last_line)
                         heap1 == Append(n2.heap, n2.function)
                         c2 == IF Failed(c1) THEN c1
                               ELSE IF Failed(n1) THEN Fail(c1, n1.err)
                               ELSE emit_constant([c1 EXCEPT !.heap = heap1], s.last_line,
                                                  "Closure", FunctionV(Len(heap1)))
                     IN  define_variable(c2, s.last_line, c1.ret)
           [] s.kind = "If" /\ s.has_else ->
                LET c1 == compile_expr(c, s.cond)
                    c2 == emit_jump(c1, s.right_paren_line, "JumpIfFalsePop")
                    c3 == compile_stmt(c2, s.then)
                    c4 == emit_jump(c3, StmtLastLine(s.then), "Jump")
                    c5 == patch_jump(c4, StmtLastLine(s.then), JumpOf(c2))
                    c6 == compile_stmt(c5, s.else_)
                IN  patch_jump(c6, StmtLastLine(s.else_), JumpOf(c4))
           [] s.kind = "If" /\ ~s.has_else ->
                LET c1 == compile_expr(c, s.cond)
                    c2 == emit_jump(c1, s.right_paren_line, "JumpIfFalsePop")
                    c3 == compile_stmt(c2, s.then)
                IN  patch_jump(c3, StmtLastLine(s.then), JumpOf(c2))
           [] s.kind = "Print" -> emit(compile_expr(c, s.expr), s.last_line, "Print")
           [] s.kind = "Return" ->
                IF c.fn_type = "Script"
                THEN Fail(c, CompileError("Can't return from top-level code.", s.keyword_line))
                ELSE IF s.has_expr
                THEN IF c.fn_type = "Initializer"
                     THEN Fail(c, CompileError("Can't return a vale from an initializer.",
                                               s.keyword_line))
                     ELSE emit(compile_expr(c, s.expr), s.last_line, "Return")
                ELSE emit_return(c, s.last_line)
           [] s.kind = "While" ->
                LET loop_start == Len(c.function.chunk)
                    c1 == compile_expr(c, s.cond)
                    c2 == emit_jump(c1, s.right_paren_line, "JumpIfFalsePop")
                    c3 == compile_stmt(c2, s.body)
                    c4 == emit_loop(c3, StmtLastLine(s.body), loop_start)
                IN  patch_jump(c4, StmtLastLine(s.body), JumpOf(c2))
           [] s.kind = "Block" ->
                end_scope(compile_stmts(begin_scope(c), s.stmts), s.last_line)

\* for stmt in body { compiler.compile_stmt(stmt)?; }: the statements in order, each
\* from the state the one before left (the sequence is split in halves, the second
\* compiled from the state the first has left, to keep the evaluation shallow)
compile_stmts(c, ss) ==
    IF ss = <<>> THEN c
    ELSE IF Len(ss) = 1 THEN compile_stmt(c, ss[1])
    ELSE CHOOSE done \in {compile_stmts(c1, SubSeq(ss, Len(ss) \div 2 + 1, Len(ss))) :
                             c1 \in {compile_stmts(c, SubSeq(ss, 1, Len(ss) \div 2))}} : TRUE

\* compiler::compile: the compiler state after finalize; its function is the script
\* and its heap holds the nested functions, unless its err is set
compile(body, heap) ==
    LET last_line == IF body = <<>> THEN 0 ELSE StmtLastLine(body[Len(body)])
    IN  finalize(compile_stmts(CompilerNew("Script", heap), body), last_line)

-----------------------------------------------------------------------------
(* Native functions (native.rs) *)

\* The readings of the monotonic clock, in whole seconds since EPOCH, that the model draws from.
MaxClock == 1

\* FUNCTIONS, the table register! builds: the names, in the order of registration
NativeNames == <<S_clock>>

\* native::all
NativeAll == [name \in {NativeNames[i] : i \in DOMAIN NativeNames} |->
                 NativeFnV((CHOOSE i \in DOMAIN NativeNames : NativeNames[i] = name) - 1)]

\* the results a call of the native with index id may return (clock: a reading of the clock)
NativeResults(id, call_args) == {NumberV(t, 1) : t \in 0..MaxClock}

-----------------------------------------------------------------------------
(* Exit codes (error.rs, impl CustomExit for Error) *)

\* an exit code that takes a Decode error for an I/O error
ExitCodeDecodeAsIo(err) ==
    CASE err.kind \in {"Compile", "Parse"} -> 65
      [] err.kind = "Runtime" -> 70
      [] err.kind \in {"Io", "Decode"} -> 74
      [] err.kind = "None" -> 0
      [] err.kind = "Panic" -> 101
      [] OTHER -> 1

\* an exit code that takes a Utf8 error for an I/O error
ExitCodeUtf8AsIo(err) ==
    CASE err.kind \in {"Compile", "Parse"} -> 65
      [] err.kind = "Runtime" -> 70
      [] err.kind \in {"Io", "Utf8"} -> 74
      [] err.kind = "None" -> 0
      [] err.kind = "Panic" -> 101
      [] OTHER -> 1

\* std::process::exit(match self { ... }); a panic ends the process with the code of
\* the Rust runtime, and main returning Ok(()) with 0
ExitCode(err) ==
    CASE err.kind \in {"Compile", "Parse"} -> 65
      [] err.kind = "Runtime" -> 70
      [] err.kind = "Io" -> 74
      [] err.kind = "None" -> 0
      [] err.kind = "Panic" -> 101
      [] OTHER -> 1

-----------------------------------------------------------------------------
(* The VM (vm.rs) *)

FRAMES_MAX == 64

CallFrame(closure, ip, slots_start) ==
    [closure |-> closure, ip |-> ip, slots_start |-> slots_start]

\* what last_op records of an instruction: its opcode, how it ended ("ok", "error",
\* "panic"), its one-byte operand and up to two values it read
LastOp(op, outcome, n, lhs, rhs) ==
    [op |-> op, outcome |-> outcome, n |-> n, lhs |-> lhs, rhs |-> rhs]
NoOp == LastOp("", "ok", 0, NilV, NilV)

Running == pc = "run" /\ frames # <<>>

\* frame!() and what read_u8!, read_u16! and read_constant! read through it
Frame == frames[Len(frames)]
Fn == functions[Frame.closure.fn]
Code == Fn.chunk
Ip == Frame.ip
Instr == Code[Ip + 1]
Arg1 == Code[Ip + 2]
Arg16 == U16FromLe(Code[Ip + 2], Code[Ip + 3])

\* the number of operand bytes of each instruction
OperandBytes(name) ==
    CASE name \in {"Call", "GetLocal", "SetLocal", "Closure", "Constant", "DefineGlobal",
                   "GetGlobal", "SetGlobal"} -> 1
      [] name \in {"Jump", "JumpIfFalsePeek", "JumpIfFalsePop", "JumpIfTruePeek", "Loop"} -> 2
      [] OTHER -> 0

\* The instruction at ip decodes to the variant "name" and its operand bytes are in the
\* chunk. mem::transmute of a byte that is no discriminant is undefined behaviour: the
\* match may then run the arm of any variant.
Decodes(name) ==
    /\ Running
    /\ Ip < Len(Code)
    /\ IF IsOpCode(Instr) THEN Instr = Op(name) ELSE TRUE
    /\ Ip + 1 + OperandBytes(name) <= Len(Code)

\* the frames after the instruction and its n operand bytes were read
Advanced(n) == [frames EXCEPT ![Len(frames)].ip = @ + 1 + n]

\* Vm::peek
Peek(offset) == stack[Len(stack) - offset]
\* the stack after k calls of Vm::pop
Popped(k) == SubSeq(stack, 1, Len(stack) - k)

\* impl Display for Error, the Runtime arm: the line written for a frame of the call
\* stack, "[line {}] in {}()" or "[line {}] in script", as the line and the text after
\* "in "; heap is the heap the functions of the closures are on
RenderFrame(frame, heap) ==
    LET f == heap[frame.closure.fn]
    IN  [line |-> f.lines[frame.ip],
         in |-> IF f.has_name THEN f.name \o <<40, 41>> ELSE <<115, 99, 114, 105, 112, 116>>]

\* a trace that begins with the frame of the script
RenderTraceOutermostFirst(err, heap) ==
    [i \in 1..Len(err.call_stack) |-> RenderFrame(err.call_stack[i], heap)]

\* the lines after the message: for frame in call_stack.into_iter().rev()
RenderTrace(err, heap) ==
    [i \in 1..Len(err.call_stack) |->
        RenderFrame(err.call_stack[Len(err.call_stack) + 1 - i], heap)]

\* impl Display for Error, the Runtime arm: lines[frame.ip - 1] of a frame of the call
\* stack is past the end of the line table (or ip is 0), and the index panics
DisplayPanics(err) ==
    /\ err.kind = "Runtime"
    /\ \E i \in DOMAIN err.call_stack :
           \/ err.call_stack[i].ip = 0
           \/ err.call_stack[i].ip > Len(functions[err.call_stack[i].closure.fn].lines)

\* main returns Err(err), or Ok(()) for NoError: CustomExit::exit prints the error and
\* ends the process (also from inside the REPL loop, where the ? of the failing call
\* leaves the loop); a panic of the printing ends it before the exit code is chosen
MainReturns(err) ==
    /\ pc' = "exited"
    /\ error' = IF DisplayPanics(err) THEN Panic("index out of bounds") ELSE err
    /\ exit_code' = ExitCode(error')

\* The collector.  Closures and functions are the allocations with an identity here
\* (ClosureObj, FunctionObj); numbers, booleans, nil and strings are values by content.

\* the fields of the Gc-allocated types that hold Gc pointers (for Value: its variants)
HeldFields ==
    [Value |-> {"Closure", "Function", "String"},
     Closure |-> {"function"},
     FunctionInner |-> {"constants", "name"},
     NativeFn |-> {}]

\* a Trace of Closure that leaves its function out
TracedFieldsWithoutFunction ==
    [Value |-> {"Closure", "Function", "String"},
     Closure |-> {},
     FunctionInner |-> {"constants", "name"},
     NativeFn |-> {}]

\* derive(Trace): the fields Trace::trace visits, which are all but the
\* unsafe_ignore_trace ones (NativeFn.inner, a fn pointer)
TracedFields ==
    [Value |-> {"Closure", "Function", "String"},
     Closure |-> {"function"},
     FunctionInner |-> {"constants", "name"},
     NativeFn |-> {}]

ClosureObj(id) == <<"Closure", id>>
FunctionObj(fn) == <<"Function", fn>>

\* the Gc pointers the Vm holds outside the Gc heap: its stack, its globals and the
\* closures of its frames
RootValues(stk, gl, fr) ==
    {stk[i] : i \in DOMAIN stk} \cup {gl[k] : k \in DOMAIN gl}
        \cup {ClosureV(fr[i].closure.id, fr[i].closure.fn) : i \in DOMAIN fr}

\* the functions the values point at through the fields given
FunctionsOf(fields, vals) ==
    {v.fn : v \in {w \in vals :
                      \/ w.tag = "Function" /\ "Function" \in fields.Value
                      \/ /\ w.tag = "Closure" /\ "Closure" \in fields.Value
                         /\ "function" \in fields.Closure}}

\* the constants of the functions, where the fields given lead to them
ConstantsOf(fields, fns) ==
    IF "constants" \in fields.FunctionInner
    THEN UNION {{functions[f].constants[i] : i \in DOMAIN functions[f].constants} :
                    f \in fns \cap DOMAIN functions}
    ELSE {}

RECURSIVE MarkFunctions(_, _, _)
MarkFunctions(fields, todo, seen) ==
    IF todo \subseteq seen THEN seen
    ELSE MarkFunctions(fields, FunctionsOf(fields, ConstantsOf(fields, todo \ seen)),
                       seen \cup todo)

\* the allocations that are reached from the roots through the fields given
Marked(fields, stk, gl, fr) ==
    LET roots == RootValues(stk, gl, fr)
        fns == MarkFunctions(fields, FunctionsOf(fields, roots), {})
        vals == roots \cup ConstantsOf(fields, fns)
    IN  {ClosureObj(v.id) : v \in {w \in vals : w.tag = "Closure" /\ "Closure" \in fields.Value}}
            \cup {FunctionObj(f) : f \in fns}

\* every closure and function allocated so far
AllObjects ==
    {ClosureObj(i) : i \in 1..(next_id - 1)} \cup {FunctionObj(f) : f \in DOMAIN functions}

\* what a collection frees: the allocations Trace does not reach from the roots (the
\* operands an instruction has popped are among the roots until it ends)
Garbage == AllObjects \ Marked(TracedFields, stack, globals, frames)

\* Gc::new: the allocation may run a collection first
Collects == collected' \in {collected, collected \cup Garbage}

\* the instructions that call Value::new, Value::nil or Closure::new (Call: the native
\* allocates its result)
Allocates ==
    {"Add", "Call", "Closure", "Div", "Equal", "False", "Greater", "GreaterEqual", "Less",
     "LessEqual", "Mul", "Neg", "Nil", "Not", "Sub", "True"}

\* a panic inside Vm::run
VmPanics(op, msg) ==
    /\ MainReturns(Panic(msg))
    /\ last_op' = LastOp(op, "panic", 0, NilV, NilV)
    /\ UNCHANGED <<vm_vars, args, input, bytecode, lines_read, output, ser_vars, lex_vars, collected>>

\* error!(self, ...) and the failing expect!: run returns Err(Error::Runtime) with a
\* clone of the frames, the stack being as the instruction left it
VmFails(op, msg, fmt_args, stack1, n, lhs, rhs) ==
    /\ frames' = Advanced(OperandBytes(op))
    /\ stack' = stack1
    /\ MainReturns(RuntimeError(msg, fmt_args, frames'))
    /\ last_op' = LastOp(op, "error", n, lhs, rhs)
    /\ UNCHANGED <<globals, functions, next_id, stdout, args, input, bytecode, lines_read,
                   output, ser_vars, lex_vars, collected>>

\* an instruction that only reads its operands and changes the stack
VmSteps(op, stack1, n, lhs, rhs) ==
    /\ frames' = Advanced(OperandBytes(op))
    /\ stack' = stack1
    /\ last_op' = LastOp(op, "ok", n, lhs, rhs)
    /\ IF op \in Allocates THEN Collects ELSE UNCHANGED collected
    /\ UNCHANGED <<globals, functions, next_id, stdout, pc, error, exit_code, args, input,
                   bytecode, lines_read, output, ser_vars, lex_vars>>

\* read_u8! past the end of the chunk (the opcode or one of its operand bytes): the
\* index panics
FetchPanic ==
    /\ Running
    /\ IF Ip >= Len(Code)
       THEN TRUE
       ELSE IsOpCode(Instr) /\ Ip + 1 + OperandBytes(OpName(Instr)) > Len(Code)
    /\ VmPanics("", "index out of bounds")

\* the transmuted byte is no discriminant and the process dies of it
UndefinedCrash ==
    /\ Running
    /\ Ip < Len(Code)
    /\ ~IsOpCode(Instr)
    /\ \E code \in {132, 139} :
        /\ pc' = "exited"
        /\ error' = PlainError("Undefined")
        /\ exit_code' = code
    /\ last_op' = LastOp("", "panic", 0, NilV, NilV)
    /\ UNCHANGED <<vm_vars, args, input, bytecode, lines_read, output, ser_vars, lex_vars, collected>>

OpAdd ==
    /\ Decodes("Add")
    /\ IF Len(stack) < 2 THEN VmPanics("Add", "tried to pop from an empty VM stack")
       ELSE LET rhs == Peek(0)
                lhs == Peek(1)
            IN  CASE lhs.tag = "String" /\ rhs.tag = "String" ->
                       VmSteps("Add", Append(Popped(2), StringV(lhs.s \o rhs.s)), 0, lhs, rhs)
                  [] lhs.tag = "Number" /\ rhs.tag = "Number" ->
                       VmSteps("Add", Append(Popped(2), NumAdd(lhs, rhs)), 0, lhs, rhs)
                  [] OTHER ->
                       VmFails("Add", "Operands must be two numbers or two strings.", <<>>,
                               Popped(2), 0, lhs, rhs)

\* arms that expect! a number on the right only
NumberOpRhsOnly(op, result) ==
    /\ Decodes(op)
    /\ IF Len(stack) < 1 THEN VmPanics(op, "tried to pop from an empty VM stack")
       ELSE IF Peek(0).tag # "Number"
       THEN VmFails(op, "Operands must be numbers.", <<>>, Popped(1), 0, NilV, Peek(0))
       ELSE IF Len(stack) < 2 THEN VmPanics(op, "tried to pop from an empty VM stack")
       ELSE VmSteps(op, Append(Popped(2), result), 0, Peek(1), Peek(0))

\* the arms that expect! two numbers: rhs is popped and checked, then lhs
NumberOp(op, result) ==
    /\ Decodes(op)
    /\ IF Len(stack) < 1 THEN VmPanics(op, "tried to pop from an empty VM stack")
       ELSE IF Peek(0).tag # "Number"
       THEN VmFails(op, "Operands must be numbers.", <<>>, Popped(1), 0, NilV, Peek(0))
       ELSE IF Len(stack) < 2 THEN VmPanics(op, "tried to pop from an empty VM stack")
       ELSE IF Peek(1).tag # "Number"
       THEN VmFails(op, "Operands must be numbers.", <<>>, Popped(2), 0, Peek(1), Peek(0))
       ELSE VmSteps(op, Append(Popped(2), result), 0, Peek(1), Peek(0))

OpDiv == NumberOp("Div", NumDiv(Peek(1), Peek(0)))
OpMul == NumberOp("Mul", NumMul(Peek(1), Peek(0)))
OpSub == NumberOp("Sub", NumSub(Peek(1), Peek(0)))
OpGreater == NumberOp("Greater", BoolV(NumLess(Peek(0), Peek(1))))
OpGreaterEqual == NumberOp("GreaterEqual", BoolV(NumLessEqual(Peek(0), Peek(1))))
OpLess == NumberOp("Less", BoolV(NumLess(Peek(1), Peek(0))))
OpLessEqual == NumberOp("LessEqual", BoolV(NumLessEqual(Peek(1), Peek(0))))

OpNeg ==
    /\ Decodes("Neg")
    /\ IF Len(stack) < 1 THEN VmPanics("Neg", "tried to pop from an empty VM stack")
       ELSE IF Peek(0).tag # "Number"
       THEN VmFails("Neg", "Operand must be a number.", <<>>, Popped(1), 0, Peek(0), NilV)
       ELSE VmSteps("Neg", Append(Popped(1), NumNeg(Peek(0))), 0, Peek(0), NilV)

OpNot ==
    /\ Decodes("Not")
    /\ IF Len(stack) < 1 THEN VmPanics("Not", "tried to pop from an empty VM stack")
       ELSE VmSteps("Not", Append(Popped(1), BoolV(~as_bool(Peek(0)))), 0, Peek(0), NilV)

OpEqual ==
    /\ Decodes("Equal")
    /\ IF Len(stack) < 2 THEN VmPanics("Equal", "tried to pop from an empty VM stack")
       ELSE VmSteps("Equal", Append(Popped(2), BoolV(ValueEq(Peek(1), Peek(0)))), 0,
                    Peek(1), Peek(0))

OpTrue == Decodes("True") /\ VmSteps("True", Append(stack, BoolV(TRUE)), 0, NilV, NilV)
OpFalse == Decodes("False") /\ VmSteps("False", Append(stack, BoolV(FALSE)), 0, NilV, NilV)
OpNil == Decodes("Nil") /\ VmSteps("Nil", Append(stack, NilV), 0, NilV, NilV)

OpPop ==
    /\ Decodes("Pop")
    /\ IF Len(stack) < 1 THEN VmPanics("Pop", "tried to pop from an empty VM stack")
       ELSE VmSteps("Pop", Popped(1), 0, Peek(0), NilV)

OpPrint ==
    /\ Decodes("Print")
    /\ IF Len(stack) < 1 THEN VmPanics("Print", "tried to pop from an empty VM stack")
       ELSE /\ frames' = Advanced(0)
            /\ stack' = Popped(1)
            /\ stdout' = Append(stdout, Display(Peek(0), functions))
            /\ last_op' = LastOp("Print", "ok", 0, Peek(0), NilV)
            /\ UNCHANGED <<globals, functions, next_id, pc, error, exit_code, args, input,
                           bytecode, lines_read, output, ser_vars, lex_vars, collected>>

OpConstant ==
    /\ Decodes("Constant")
    /\ IF Arg1 >= Len(Fn.constants) THEN VmPanics("Constant", "index out of bounds")
       ELSE VmSteps("Constant", Append(stack, Fn.constants[Arg1 + 1]), Arg1, NilV, NilV)

\* a Closure that hands out one closure per function
OpClosureShared ==
    /\ Decodes("Closure")
    /\ IF Arg1 >= Len(Fn.constants) THEN VmPanics("Closure", "index out of bounds")
       ELSE IF Fn.constants[Arg1 + 1].tag # "Function"
       THEN VmPanics("Closure", "function constant was not a function")
       ELSE /\ frames' = Advanced(1)
            /\ stack' = Append(stack, ClosureV(0, Fn.constants[Arg1 + 1].fn))
            /\ next_id' = next_id
            /\ last_op' = LastOp("Closure", "ok", Arg1, Fn.constants[Arg1 + 1], NilV)
            /\ Collects
            /\ UNCHANGED <<globals, functions, stdout, pc, error, exit_code, args, input,
                           bytecode, lines_read, output, ser_vars, lex_vars>>

OpClosure ==
    /\ Decodes("Closure")
    /\ IF Arg1 >= Len(Fn.constants) THEN VmPanics("Closure", "index out of bounds")
       ELSE IF Fn.constants[Arg1 + 1].tag # "Function"
       THEN VmPanics("Closure", "function constant was not a function")
       ELSE /\ frames' = Advanced(1)
            /\ stack' = Append(stack, ClosureV(next_id, Fn.constants[Arg1 + 1].fn))
            /\ next_id' = next_id + 1
            /\ last_op' = LastOp("Closure", "ok", Arg1, Fn.constants[Arg1 + 1], NilV)
            /\ Collects
            /\ UNCHANGED <<globals, functions, stdout, pc, error, exit_code, args, input,
                           bytecode, lines_read, output, ser_vars, lex_vars>>

\* HashMap::insert
\* an insert that keeps the value of a key that is present
MapInsertIfAbsent(map, key, value) ==
    [k \in DOMAIN map \cup {key} |-> IF k \in DOMAIN map THEN map[k] ELSE value]

\* HashMap::insert
MapInsert(map, key, value) ==
    [k \in DOMAIN map \cup {key} |-> IF k = key THEN value ELSE map[k]]

OpDefineGlobal ==
    /\ Decodes("DefineGlobal")
    /\ IF Arg1 >= Len(Fn.constants) THEN VmPanics("DefineGlobal", "index out of bounds")
       ELSE IF Fn.constants[Arg1 + 1].tag # "String"
       THEN VmPanics("DefineGlobal", "global name was not a string")
       ELSE IF Len(stack) < 1
       THEN VmPanics("DefineGlobal", "tried to pop from an empty VM stack")
       ELSE /\ frames' = Advanced(1)
            /\ stack' = Popped(1)
            /\ globals' = MapInsert(globals, Fn.constants[Arg1 + 1].s, Peek(0))
            /\ last_op' = LastOp("DefineGlobal", "ok", Arg1, Fn.constants[Arg1 + 1], Peek(0))
            /\ UNCHANGED <<functions, next_id, stdout, pc, error, exit_code, args, input,
                           bytecode, lines_read, output, ser_vars, lex_vars, collected>>

OpGetGlobal ==
    /\ Decodes("GetGlobal")
    /\ IF Arg1 >= Len(Fn.constants) THEN VmPanics("GetGlobal", "index out of bounds")
       ELSE IF Fn.constants[Arg1 + 1].tag # "String"
       THEN VmPanics("GetGlobal", "global name was not a string")
       ELSE LET name == Fn.constants[Arg1 + 1].s
            IN  IF name \notin DOMAIN globals
                THEN VmFails("GetGlobal", "Undefined variable '{}'.", <<name>>, stack, Arg1,
                             Fn.constants[Arg1 + 1], NilV)
                ELSE VmSteps("GetGlobal", Append(stack, globals[name]), Arg1,
                             Fn.constants[Arg1 + 1], NilV)

\* HashMap::remove
MapRemove(map, key) == [k \in DOMAIN map \ {key} |-> map[k]]

\* a SetGlobal that keeps the entry it inserted for an undefined name
SetGlobalMapKeeping(map, name, value) == MapInsert(map, name, value)

\* OpCode::SetGlobal: the globals after the insert and, where insert returned None
\* (no entry of that name before), the remove
SetGlobalMap(map, name, value) ==
    IF name \in DOMAIN map
    THEN MapInsert(map, name, value)
    ELSE MapRemove(MapInsert(map, name, value), name)

OpSetGlobal ==
    /\ Decodes("SetGlobal")
    /\ IF Arg1 >= Len(Fn.constants) THEN VmPanics("SetGlobal", "index out of bounds")
       ELSE IF Fn.constants[Arg1 + 1].tag # "String"
       THEN VmPanics("SetGlobal", "global name was not a string")
       ELSE IF Len(stack) < 1 THEN VmPanics("SetGlobal", "index out of bounds")
       ELSE LET name == Fn.constants[Arg1 + 1].s
            IN  IF name \notin DOMAIN globals
                THEN /\ frames' = Advanced(1)
                     /\ stack' = stack
                     /\ globals' = SetGlobalMap(globals, name, Peek(0))
                     /\ MainReturns(RuntimeError("Undefined variable '{}'.", <<name>>, frames'))
                     /\ last_op' = LastOp("SetGlobal", "error", Arg1, Fn.constants[Arg1 + 1],
                                          Peek(0))
                     /\ UNCHANGED <<functions, next_id, stdout, args, input, bytecode,
                                    lines_read, output, ser_vars, lex_vars, collected>>
                ELSE /\ frames' = Advanced(1)
                     /\ globals' = SetGlobalMap(globals, name, Peek(0))
                     /\ last_op' = LastOp("SetGlobal", "ok", Arg1, Fn.constants[Arg1 + 1], Peek(0))
                     /\ UNCHANGED <<stack, functions, next_id, stdout, pc, error, exit_code,
                                    args, input, bytecode, lines_read, output, ser_vars, lex_vars, collected>>

OpGetLocal ==
    /\ Decodes("GetLocal")
    /\ IF Frame.slots_start + Arg1 >= Len(stack) THEN VmPanics("GetLocal", "index out of bounds")
       ELSE VmSteps("GetLocal", Append(stack, stack[Frame.slots_start + Arg1 + 1]), Arg1,
                    stack[Frame.slots_start + Arg1 + 1], NilV)

OpSetLocal ==
    /\ Decodes("SetLocal")
    /\ IF Frame.slots_start + Arg1 >= Len(stack) THEN VmPanics("SetLocal", "index out of bounds")
       ELSE VmSteps("SetLocal", [stack EXCEPT ![Frame.slots_start + Arg1 + 1] = Peek(0)], Arg1,
                    Peek(0), NilV)

\* a jump that, when taken, goes back to its own opcode
JumpOpToItself(op, needs, pops, taken, delta) ==
    /\ Decodes(op)
    /\ IF Len(stack) < needs
       THEN VmPanics(op, IF pops > 0 THEN "tried to pop from an empty VM stack"
                         ELSE "index out of bounds")
       ELSE /\ frames' = [frames EXCEPT ![Len(frames)].ip = @ + (IF taken THEN 0 ELSE 3)]
            /\ stack' = Popped(pops)
            /\ last_op' = LastOp(op, "ok", 0, IF needs > 0 THEN Peek(0) ELSE NilV, NilV)
            /\ UNCHANGED <<globals, functions, next_id, stdout, pc, error, exit_code, args,
                           input, bytecode, lines_read, output, ser_vars, lex_vars, collected>>

\* a jump: the operands are read, "taken" decides on the stack, "pops" values are popped
JumpOp(op, needs, pops, taken, delta) ==
    /\ Decodes(op)
    /\ IF Len(stack) < needs
       THEN VmPanics(op, IF pops > 0 THEN "tried to pop from an empty VM stack"
                         ELSE "index out of bounds")
       ELSE IF taken /\ Ip + 3 + delta < 0
       THEN VmPanics(op, "attempt to subtract with overflow")
       ELSE /\ frames' = [frames EXCEPT ![Len(frames)].ip = @ + 3 + (IF taken THEN delta ELSE 0)]
            /\ stack' = Popped(pops)
            /\ last_op' = LastOp(op, "ok", 0, IF needs > 0 THEN Peek(0) ELSE NilV, NilV)
            /\ UNCHANGED <<globals, functions, next_id, stdout, pc, error, exit_code, args,
                           input, bytecode, lines_read, output, ser_vars, lex_vars, collected>>

OpJump == JumpOp("Jump", 0, 0, TRUE, Arg16)
\* a JumpIfFalsePeek that never jumps
OpJumpIfFalsePeekNever == JumpOp("JumpIfFalsePeek", 1, 0, FALSE, Arg16)

OpJumpIfFalsePeek == JumpOp("JumpIfFalsePeek", 1, 0, ~as_bool(Peek(0)), Arg16)
OpJumpIfFalsePop == JumpOp("JumpIfFalsePop", 1, 1, ~as_bool(Peek(0)), Arg16)
OpJumpIfTruePeek == JumpOp("JumpIfTruePeek", 1, 0, as_bool(Peek(0)), Arg16)
OpLoop == JumpOp("Loop", 0, 0, TRUE, -Arg16)

\* a call without the check of the frame count
CallClosureUnbounded(closure, arg_count, frames1) ==
    IF arg_count # functions[closure.fn].arity
    THEN [ok |-> FALSE, msg |-> "Expected {} arguments but got {}.",
          fmt_args |-> <<functions[closure.fn].arity, arg_count>>, frames |-> frames1]
    ELSE [ok |-> TRUE, msg |-> "", fmt_args |-> <<>>,
          frames |-> Append(frames1, CallFrame([id |-> closure.id, fn |-> closure.fn], 0,
                                               Len(stack) - arg_count - 1))]

\* a call without the check of the arity
CallClosureAnyArity(closure, arg_count, frames1) ==
    IF Len(frames1) = FRAMES_MAX
    THEN [ok |-> FALSE, msg |-> "Stack overflow.", fmt_args |-> <<>>, frames |-> frames1]
    ELSE [ok |-> TRUE, msg |-> "", fmt_args |-> <<>>,
          frames |-> Append(frames1, CallFrame([id |-> closure.id, fn |-> closure.fn], 0,
                                               Len(stack) - arg_count - 1))]

\* a call whose frame begins at the first argument
CallClosureBaseAtFirstArg(closure, arg_count, frames1) ==
    LET arity == functions[closure.fn].arity
    IN  IF arg_count # arity
        THEN [ok |-> FALSE, msg |-> "Expected {} arguments but got {}.",
              fmt_args |-> <<arity, arg_count>>, frames |-> frames1]
        ELSE IF Len(frames1) = FRAMES_MAX
        THEN [ok |-> FALSE, msg |-> "Stack overflow.", fmt_args |-> <<>>, frames |-> frames1]
        ELSE [ok |-> TRUE, msg |-> "", fmt_args |-> <<>>,
              frames |-> Append(frames1,
                                CallFrame([id |-> closure.id, fn |-> closure.fn], 0,
                                          Len(stack) - arg_count))]

\* Vm::call: the frames it leaves, or the error it returns
CallClosure(closure, arg_count, frames1) ==
    LET arity == functions[closure.fn].arity
    IN  IF arg_count # arity
        THEN [ok |-> FALSE, msg |-> "Expected {} arguments but got {}.",
              fmt_args |-> <<arity, arg_count>>, frames |-> frames1]
        ELSE IF Len(frames1) = FRAMES_MAX
        THEN [ok |-> FALSE, msg |-> "Stack overflow.", fmt_args |-> <<>>, frames |-> frames1]
        ELSE [ok |-> TRUE, msg |-> "", fmt_args |-> <<>>,
              frames |-> Append(frames1,
                                CallFrame([id |-> closure.id, fn |-> closure.fn], 0,
                                          Len(stack) - arg_count - 1))]

\* OpCode::Call with Vm::call_value
\* Vm::call_value, the NativeFn arm: the slice the native is invoked with
NativeArgs(arg_count) == SubSeq(stack, Len(stack) - arg_count + 1, Len(stack))

\* a native call that leaves the callee on the stack
CallNativeKeepingCallee(arg_count, result) == Append(Popped(arg_count), result)

\* Vm::call_value, the NativeFn arm: the stack after the truncate and the push
CallNative(arg_count, result) == Append(Popped(arg_count + 1), result)

OpCall ==
    /\ Decodes("Call")
    /\ IF Len(stack) < Arg1 + 1 THEN VmPanics("Call", "index out of bounds")
       ELSE LET rcpt == Peek(Arg1)
                r == CallClosure(rcpt, Arg1, Advanced(1))
            IN  CASE rcpt.tag = "Closure" /\ r.ok ->
                       /\ frames' = r.frames
                       /\ last_op' = LastOp("Call", "ok", Arg1, rcpt, NilV)
                       /\ UNCHANGED <<stack, globals, functions, next_id, stdout, pc, error,
                                      exit_code, args, input, bytecode, lines_read, output,
                                      ser_vars, lex_vars, collected>>
                  [] rcpt.tag = "Closure" /\ ~r.ok ->
                       VmFails("Call", r.msg, r.fmt_args, stack, Arg1, rcpt, NilV)
                  [] rcpt.tag = "NativeFn" ->
                       \E result \in NativeResults(rcpt.id, NativeArgs(Arg1)) :
                           VmSteps("Call", CallNative(Arg1, result), Arg1, rcpt, result)
                  [] OTHER ->
                       VmFails("Call", "Can only call functions and classes.", <<>>, stack,
                               Arg1, rcpt, NilV)

\* a truncate that drops nothing
TruncateNothing(seq, len) == seq

\* Vec::truncate
Truncate(seq, len) == IF len < Len(seq) THEN SubSeq(seq, 1, len) ELSE seq

\* run returned Ok(()): in the REPL the loop goes on to its next prompt, with a script
\* main returns Ok(())
InterpretReturnsOk ==
    IF args.has_script
    THEN MainReturns(NoError)
    ELSE pc' = "prompt" /\ UNCHANGED <<error, exit_code>>

OpReturn ==
    /\ Decodes("Return")
    /\ IF Len(stack) < 1 THEN VmPanics("Return", "tried to pop from an empty VM stack")
       ELSE IF Len(frames) = 1
       THEN IF Len(stack) < 2 THEN VmPanics("Return", "tried to pop from an empty VM stack")
            ELSE /\ frames' = <<>>
                 /\ stack' = Popped(2)
                 /\ InterpretReturnsOk
                 /\ last_op' = LastOp("Return", "ok", 0, Peek(0), NilV)
                 /\ UNCHANGED <<globals, functions, next_id, stdout, args, input, bytecode,
                                lines_read, output, ser_vars, lex_vars, collected>>
       ELSE /\ frames' = SubSeq(frames, 1, Len(frames) - 1)
            /\ stack' = Append(Truncate(Popped(1), Frame.slots_start), Peek(0))
            /\ last_op' = LastOp("Return", "ok", 0, Peek(0), NilV)
            /\ UNCHANGED <<globals, functions, next_id, stdout, pc, error, exit_code, args,
                           input, bytecode, lines_read, output, ser_vars, lex_vars, collected>>

VmNext ==
    \/ OpAdd \/ OpCall \/ OpClosure \/ OpConstant \/ OpDefineGlobal \/ OpDiv \/ OpEqual
    \/ OpFalse \/ OpGetGlobal \/ OpGetLocal \/ OpGreater \/ OpGreaterEqual \/ OpJump
    \/ OpJumpIfFalsePeek \/ OpJumpIfFalsePop \/ OpJumpIfTruePeek \/ OpLess \/ OpLessEqual
    \/ OpLoop \/ OpMul \/ OpNeg \/ OpNil \/ OpNot \/ OpPop \/ OpPrint \/ OpReturn
    \/ OpSetGlobal \/ OpSetLocal \/ OpSub \/ OpTrue
    \/ FetchPanic \/ UndefinedCrash

-----------------------------------------------------------------------------
(* The binary format (value.rs: Value::write/read, FunctionInner::write/read) *)

\* the magic byte of a script
Magic == 192

RECURSIVE Pow2(_)
Pow2(k) == IF k = 0 THEN 1 ELSE 2 * Pow2(k - 1)

\* floor(log2 n) for n >= 1
RECURSIVE Log2(_)
Log2(n) == IF n < 2 THEN 0 ELSE 1 + Log2(n \div 2)

\* Integers of magnitude below 2^21 are the f64 values whose bytes the model computes:
\* the 20 leading bits of the mantissa hold them, the other 32 are zero.
\* write_f64::<LittleEndian> of the integer n, |n| < 2^21: sign, exponent biased by
\* 1023, and the mantissa without its leading 1
F64Le(n) ==
    IF n = 0 THEN <<0, 0, 0, 0, 0, 0, 0, 0>>
    ELSE LET e == Log2(Abs(n))
             biased == 1023 + e
             m == (Abs(n) - Pow2(e)) * Pow2(20 - e)
         IN  <<0, 0, 0, 0, m % 256, (m \div 256) % 256,
               (biased % 16) * 16 + m \div 65536,
               (IF n < 0 THEN 128 ELSE 0) + biased \div 16>>

\* read_f64::<LittleEndian>: [ok, n]; ok is FALSE for the bytes of an f64 outside the
\* integers the model holds
F64FromLe(b) ==
    LET biased == (b[8] % 128) * 16 + b[7] \div 16
        e == biased - 1023
        m == (b[7] % 16) * 65536 + b[6] * 256 + b[5]
        low == b[1] = 0 /\ b[2] = 0 /\ b[3] = 0 /\ b[4] = 0
    IN  IF \A i \in 1..8 : b[i] = 0 THEN [ok |-> TRUE, n |-> 0]
        ELSE IF low /\ e \in 0..20 /\ m % Pow2(20 - e) = 0
        THEN [ok |-> TRUE,
              n |-> (IF b[8] >= 128 THEN -1 ELSE 1) * (Pow2(e) + m \div Pow2(20 - e))]
        ELSE [ok |-> FALSE, n |-> 0]

\* write_u32 and write_u64 (LittleEndian) of a number below 2^31
U32Le(n) == <<n % 256, (n \div 256) % 256, (n \div 65536) % 256, n \div 16777216>>
U64Le(n) == U32Le(n) \o <<0, 0, 0, 0>>

\* read_u32 (of a line below 2^31) and read_u64: [huge, n], huge for a u64 of 2^31 or more
U32FromLe(b) == b[1] + 256 * b[2] + 65536 * b[3] + 16777216 * (b[4] % 128)
U64FromLe(b) ==
    IF b[4] >= 128 \/ \E i \in 5..8 : b[i] # 0
    THEN [huge |-> TRUE, n |-> 0]
    ELSE [huge |-> FALSE, n |-> U32FromLe(b)]

\* the length of the run of lines equal to the first, however long
RunLenUncapped(lns, cap) ==
    CHOOSE k \in 1..Len(lns) :
        /\ \A i \in 1..k : lns[i] = lns[1]
        /\ k = Len(lns) \/ lns[k + 1] # lns[1]

\* the length of the run of lines equal to the first, at most cap long
RunLen(lns, cap) ==
    CHOOSE k \in 1..Len(lns) :
        /\ k <= cap
        /\ \A i \in 1..k : lns[i] = lns[1]
        /\ k = cap \/ k = Len(lns) \/ lns[k + 1] # lns[1]

\* the while loop of FunctionInner::write over the lines, and the closing 0
RECURSIVE WriteLines(_)
WriteLines(lns) ==
    IF lns = <<>> THEN <<0>>
    ELSE LET run_len == RunLen(lns, U8Max)
         IN  <<run_len>> \o U32Le(lns[1]) \o WriteLines(SubSeq(lns, run_len + 1, Len(lns)))

RECURSIVE WriteFunction(_, _)
RECURSIVE WriteValue(_, _)
RECURSIVE WriteValues(_, _)

\* FunctionInner::write: [panic, bytes]; heap is the heap the Function constants point into
WriteFunction(f, heap) ==
    LET head == IF f.has_name THEN U64Le(Len(f.name)) \o f.name \o <<f.arity>>
                ELSE <<Magic>>
        consts == WriteValues(f.constants, heap)
    IN  IF ~f.has_name /\ f.arity # 0
        THEN [panic |-> TRUE, bytes |-> head]
        ELSE IF Len(f.constants) > U8Max
        THEN [panic |-> TRUE, bytes |-> head]
        ELSE [panic |-> consts.panic,
              bytes |-> head \o <<Len(f.constants)>> \o consts.bytes
                        \o U64Le(Len(f.chunk)) \o f.chunk \o WriteLines(f.lines)]

\* Value::write (a Closure writes its function)
WriteValue(v, heap) ==
    CASE v.tag = "Nil" -> [panic |-> FALSE, bytes |-> <<0>>]
      [] v.tag = "Bool" -> [panic |-> FALSE, bytes |-> IF v.b THEN <<2>> ELSE <<1>>]
      [] v.tag = "Number" -> [panic |-> FALSE, bytes |-> <<3>> \o F64Le(v.n)]
      [] v.tag = "Closure" ->
            LET w == WriteFunction(heap[v.fn], heap)
            IN  [panic |-> w.panic, bytes |-> <<4>> \o w.bytes]
      [] v.tag = "Function" ->
            LET w == WriteFunction(heap[v.fn], heap)
            IN  [panic |-> w.panic, bytes |-> <<5>> \o w.bytes]
      [] v.tag = "NativeFn" -> [panic |-> FALSE, bytes |-> <<6, v.id>>]
      [] v.tag = "String" -> [panic |-> FALSE, bytes |-> <<7>> \o U64Le(Len(v.s)) \o v.s]

\* for constant in constants { constant.write(sink)?; }: the bytes of the constants in
\* order (the sequence is split in halves to keep the evaluation shallow)
Written(w, ws) == [panic |-> w.panic \/ ws.panic, bytes |-> w.bytes \o ws.bytes]
WriteValues(vs, heap) ==
    IF vs = <<>> THEN [panic |-> FALSE, bytes |-> <<>>]
    ELSE IF Len(vs) = 1 THEN WriteValue(vs[1], heap)
    ELSE Written(WriteValues(SubSeq(vs, 1, Len(vs) \div 2), heap),
                 WriteValues(SubSeq(vs, Len(vs) \div 2 + 1, Len(vs)), heap))

\* A read in progress: the stream (bytes, the position pos of the next byte), the heap
\* and the closure counter the values read are allocated from, and the Err it ended with.
Reader(bytes, pos, heap, ids) ==
    [bytes |-> bytes, pos |-> pos, heap |-> heap, ids |-> ids, err |-> NoError]

ReadFailed(r) == r.err.kind # "None"
\* read_u8, read_u32, read_u64, read_f64, read_exact at the end of the stream:
\* io::ErrorKind::UnexpectedEof, which ? turns into Error::Io
Has(r, n) == r.pos + n <= Len(r.bytes)
Eof(r) == [r EXCEPT !.err = PlainError("Io")]
Take(r, n) == SubSeq(r.bytes, r.pos + 1, r.pos + n)
Skip(r, n) == [r EXCEPT !.pos = r.pos + n]

\* The name of a function and the text of a String value: the length is read, the
\* buffer is Vec::with_capacity(len), whose length is 0, so read_exact fills nothing
\* and the text is empty; the bytes of the text stay in the stream. [r, s]
ReadString(r) ==
    IF ~Has(r, 8) THEN [r |-> Eof(r), s |-> <<>>]
    ELSE IF U64FromLe(Take(r, 8)).huge
    THEN [r |-> [r EXCEPT !.err = Panic("capacity overflow")], s |-> <<>>]
    ELSE [r |-> Skip(r, 8), s |-> <<>>]

RECURSIVE ReadFunction(_, _)
RECURSIVE ReadValue(_)
RECURSIVE ReadValues(_, _)
RECURSIVE ReadLines(_, _)

\* the loop of FunctionInner::read over the (run_len, line) pairs: [r, lines]
ReadLines(r, lns) ==
    IF ~Has(r, 1) THEN [r |-> Eof(r), lines |-> lns]
    ELSE LET run_len == r.bytes[r.pos + 1]
             r1 == Skip(r, 1)
         IN  IF run_len = 0 THEN [r |-> r1, lines |-> lns]
             ELSE IF ~Has(r1, 4) THEN [r |-> Eof(r1), lines |-> lns]
             ELSE ReadLines(Skip(r1, 4),
                            lns \o [i \in 1..run_len |-> U32FromLe(Take(r1, 4))])

\* Value::read: [r, v]
ReadValue(r) ==
    IF ~Has(r, 1) THEN [r |-> Eof(r), v |-> NilV]
    ELSE LET tag == r.bytes[r.pos + 1]
             r1 == Skip(r, 1)
         IN  CASE tag = 0 -> [r |-> r1, v |-> NilV]
               [] tag = 1 -> [r |-> r1, v |-> BoolV(FALSE)]
               [] tag = 2 -> [r |-> r1, v |-> BoolV(TRUE)]
               [] tag = 3 ->
                    IF ~Has(r1, 8) THEN [r |-> Eof(r1), v |-> NilV]
                    ELSE IF ~F64FromLe(Take(r1, 8)).ok
                    THEN [r |-> [r1 EXCEPT !.err = PlainError("Unmodelled")], v |-> NilV]
                    ELSE [r |-> Skip(r1, 8), v |-> NumberV(F64FromLe(Take(r1, 8)).n, 1)]
               [] tag = 4 ->
                    LET f == ReadFunction(r1, FALSE)
                        heap1 == Append(f.r.heap, f.f)
                    IN  IF ReadFailed(f.r) THEN [r |-> f.r, v |-> NilV]
                        ELSE [r |-> [f.r EXCEPT !.heap = heap1, !.ids = f.r.ids + 1],
                              v |-> ClosureV(f.r.ids, Len(heap1))]
               [] tag = 5 ->
                    LET f == ReadFunction(r1, FALSE)
                        heap1 == Append(f.r.heap, f.f)
                    IN  IF ReadFailed(f.r) THEN [r |-> f.r, v |-> NilV]
                        ELSE [r |-> [f.r EXCEPT !.heap = heap1], v |-> FunctionV(Len(heap1))]
               [] tag = 6 ->
                    IF ~Has(r1, 1) THEN [r |-> Eof(r1), v |-> NilV]
                    ELSE IF r1.bytes[r1.pos + 1] >= Len(NativeNames)
                    THEN [r |-> [r1 EXCEPT !.err = Error("Decode", "NativeFn", <<>>, 0, <<>>)],
                          v |-> NilV]
                    ELSE [r |-> Skip(r1, 1), v |-> NativeFnV(r1.bytes[r1.pos + 1])]
               [] tag = 7 ->
                    LET s == ReadString(r1)
                    IN  [r |-> s.r, v |-> StringV(s.s)]
               [] OTHER ->
                    [r |-> [r1 EXCEPT !.err = Error("Decode", "Value", <<>>, 0, <<>>)],
                     v |-> NilV]

\* for _ in 0..len { constants.push(Gc::new(Value::read(stream)?)); }: [r, vs]
ReadValues(r, len) ==
    IF len = 0 THEN [r |-> r, vs |-> <<>>]
    ELSE LET v == ReadValue(r)
             rest == ReadValues(v.r, len - 1)
         IN  IF ReadFailed(v.r) THEN [r |-> v.r, vs |-> <<>>]
             ELSE [r |-> rest.r, vs |-> <<v.v>> \o rest.vs]

\* FunctionInner::read: [r, f]
ReadFunction(r, is_script) ==
    LET name == IF is_script THEN [r |-> r, s |-> <<>>] ELSE ReadString(r)
        r1 == name.r
        arity == IF is_script THEN 0 ELSE r1.bytes[r1.pos + 1]
        r2 == IF is_script THEN r1 ELSE Skip(r1, 1)
        count == r2.bytes[r2.pos + 1]
        consts == ReadValues(Skip(r2, 1), count)
        r3 == consts.r
        len == U64FromLe(Take(r3, 8))
        r4 == Skip(r3, 8)
        lns == ReadLines(Skip(r4, len.n), <<>>)
        bad(rr) == [r |-> rr, f |-> FunctionDefault]
    IN  IF ReadFailed(r1) THEN bad(r1)
        ELSE IF ~is_script /\ ~Has(r1, 1) THEN bad(Eof(r1))
        ELSE IF ~Has(r2, 1) THEN bad(Eof(r2))
        ELSE IF ReadFailed(r3) THEN bad(r3)
        ELSE IF ~Has(r3, 8) THEN bad(Eof(r3))
        ELSE IF len.huge THEN bad([r3 EXCEPT !.err = Panic("capacity overflow")])
        ELSE IF ~Has(r4, len.n) THEN bad(Eof(r4))
        ELSE IF ReadFailed(lns.r) THEN bad(lns.r)
        ELSE [r |-> lns.r,
              f |-> FunctionInner(arity, Take(r4, len.n), lns.lines, consts.vs,
                                  ~is_script, name.s)]

-----------------------------------------------------------------------------
(* The lexer (lexer.rs) *)

\* struct Lexer with the stream it was made over: stream holds the bytes the Read
\* yields, fails says that it ends in an I/O error instead of the end of the input,
\* pos counts the bytes read from it, open is false once self.stream is None;
\* peek_some and peek are self.peek. taken is history: the bytes next_byte has handed
\* out and that were not put back.
Lexer(bytes, fails) ==
    [stream |-> bytes, fails |-> fails, pos |-> 0, open |-> TRUE,
     peek_some |-> FALSE, peek |-> 0, line |-> 1, taken |-> <<>>]

NoLexer == Lexer(<<>>, FALSE)

\* Lexer::next_byte: [lx, kind, byte] with kind "Some", "None" (Ok(None)) or "Err"
next_byte_stream_first(lx) ==
    IF lx.open /\ lx.pos < Len(lx.stream)
    THEN [lx |-> [lx EXCEPT !.pos = lx.pos + 1,
                            !.taken = Append(lx.taken, lx.stream[lx.pos + 1])],
          kind |-> "Some", byte |-> lx.stream[lx.pos + 1]]
    ELSE IF lx.peek_some
    THEN [lx |-> [lx EXCEPT !.peek_some = FALSE, !.taken = Append(lx.taken, lx.peek)],
          kind |-> "Some", byte |-> lx.peek]
    ELSE [lx |-> [lx EXCEPT !.open = FALSE], kind |-> "None", byte |-> 0]

next_byte(lx) ==
    IF lx.peek_some
    THEN [lx |-> [lx EXCEPT !.peek_some = FALSE, !.taken = Append(lx.taken, lx.peek)],
          kind |-> "Some", byte |-> lx.peek]
    ELSE IF lx.open
    THEN IF lx.pos < Len(lx.stream)
         THEN [lx |-> [lx EXCEPT !.pos = lx.pos + 1,
                                 !.taken = Append(lx.taken, lx.stream[lx.pos + 1])],
               kind |-> "Some", byte |-> lx.stream[lx.pos + 1]]
         ELSE IF lx.fails
         THEN [lx |-> lx, kind |-> "Err", byte |-> 0]
         ELSE [lx |-> [lx EXCEPT !.open = FALSE], kind |-> "None", byte |-> 0]
    ELSE [lx |-> lx, kind |-> "None", byte |-> 0]

\* self.peek = Some(next_byte)
set_peek(lx, byte) ==
    [lx EXCEPT !.peek_some = TRUE, !.peek = byte,
               !.taken = SubSeq(lx.taken, 1, Len(lx.taken) - 1)]

\* a lexer that does not count the line
line_keep(lx) == lx

\* self.line += 1 (a u32, which no input of the model overflows)
line_inc(lx) == [lx EXCEPT !.line = lx.line + 1]

\* enum Token: the line every variant holds, the second line of a STRING, the text of
\* an IDENTIFIER or a STRING and the value of a NUMBER (the fields a variant does not
\* have hold a filler)
Token(kind, line, end_line, text, value) ==
    [kind |-> kind, line |-> line, end_line |-> end_line, text |-> text, value |-> value]
FixedToken(kind, line) == Token(kind, line, 0, <<>>, NilV)

\* what Lexer::next returns: None, Some(Ok((start, token, end))) or Some(Err(err)).
\* first is history: the index in the stream of the byte the token began with.
NoToken == FixedToken("", 0)
NoItem == [tag |-> "", start |-> 0, token |-> NoToken, end |-> 0,
           err |-> [kind |-> "None", msg |-> "", has_line |-> FALSE, line |-> 0],
           first |-> 0]
ItemNone == [NoItem EXCEPT !.tag = "None"]
ItemOk(start, token, end, first) ==
    [NoItem EXCEPT !.tag = "Ok", !.start = start, !.token = token, !.end = end,
                   !.first = first]
\* Error::Compile(format!(..)) as the lexer builds it: the message, and no line
LexerCompileError(msg, first) ==
    [NoItem EXCEPT !.tag = "Err", !.first = first,
                   !.err = [kind |-> "Compile", msg |-> msg, has_line |-> FALSE, line |-> 0]]
\* e.into() of an io::Error or a FromUtf8Error
LexerError(kind, first) ==
    [NoItem EXCEPT !.tag = "Err", !.first = first,
                   !.err = [kind |-> kind, msg |-> "", has_line |-> FALSE, line |-> 0]]

\* the state next leaves with what it returns
Returned(lx, it) == [lx |-> lx, item |-> it]
Found(lx, first, token) == Returned(lx, ItemOk(token.line, token, lx.line, first))

\* the bytes read and not put back
Consumed(lx) == IF lx.peek_some THEN lx.pos - 1 ELSE lx.pos

\* the loop of a line comment: up to the newline ("Some"), the end or an error
RECURSIVE next_comment(_)
next_comment(lx) ==
    CHOOSE done \in
        {IF r.kind = "Some"
         THEN IF r.byte = 10 THEN [lx |-> line_inc(r.lx), kind |-> "Some"]
              ELSE next_comment(r.lx)
         ELSE [lx |-> r.lx, kind |-> r.kind] : r \in {next_byte(lx)}} : TRUE

\* the first loop of next: whitespace and comments are skipped up to the first byte
\* of a token: [lx, kind, byte]
RECURSIVE next_skip(_)
AfterSlash(lx, r) ==
    IF r.kind = "Some" /\ r.byte = 47
    THEN CHOOSE done \in
             {IF c.kind = "Some" THEN next_skip(c.lx)
              ELSE [lx |-> c.lx, kind |-> c.kind, byte |-> 0] :
                 c \in {next_comment(r.lx)}} : TRUE
    ELSE IF r.kind = "Some" THEN [lx |-> set_peek(r.lx, r.byte), kind |-> "Some", byte |-> 47]
    ELSE IF r.kind = "None" THEN [lx |-> r.lx, kind |-> "Some", byte |-> 47]
    ELSE [lx |-> r.lx, kind |-> "Err", byte |-> 0]
SkipByte(r) ==
    IF r.kind # "Some" THEN [lx |-> r.lx, kind |-> r.kind, byte |-> 0]
    ELSE IF r.byte \in {32, 13, 9} THEN next_skip(r.lx)
    ELSE IF r.byte = 10 THEN next_skip(line_inc(r.lx))
    ELSE IF r.byte = 47 THEN AfterSlash(r.lx, next_byte(r.lx))
    ELSE r
next_skip(lx) == SkipByte(next_byte(lx))

\* b'0'..=b'9' and b'A'..=b'Z' | b'_' | b'a'..=b'z'
IsDigit(byte) == byte \in 48..57
IsAlpha(byte) == byte \in (65..90) \cup {95} \cup (97..122)

\* the loop of an identifier: [lx, kind, text]
RECURSIVE next_ident(_, _)
IdentByte(r, ident) ==
    IF r.kind = "Some" /\ (IsDigit(r.byte) \/ IsAlpha(r.byte))
    THEN next_ident(r.lx, Append(ident, r.byte))
    ELSE IF r.kind = "Some" THEN [lx |-> set_peek(r.lx, r.byte), kind |-> "Some", text |-> ident]
    ELSE IF r.kind = "None" THEN [lx |-> r.lx, kind |-> "Some", text |-> ident]
    ELSE [lx |-> r.lx, kind |-> "Err", text |-> ident]
next_ident(lx, ident) == IdentByte(next_byte(lx), ident)

\* the keywords of the match on the identifier, each with its token
Keywords ==
    <<<<<<97, 110, 100>>, "AND">>,
      <<<<99, 108, 97, 115, 115>>, "CLASS">>,
      <<<<101, 108, 115, 101>>, "ELSE">>,
      <<<<102, 97, 108, 115, 101>>, "FALSE">>,
      <<<<102, 111, 114>>, "FOR">>,
      <<<<102, 117, 110>>, "FUN">>,
      <<<<105, 102>>, "IF">>,
      <<<<110, 105, 108>>, "NIL">>,
      <<<<111, 114>>, "OR">>,
      <<<<112, 114, 105, 110, 116>>, "PRINT">>,
      <<<<114, 101, 116, 117, 114, 110>>, "RETURN">>,
      <<<<115, 117, 112, 101, 114>>, "SUPER">>,
      <<<<116, 104, 105, 115>>, "THIS">>,
      <<<<116, 114, 117, 101>>, "TRUE">>,
      <<<<118, 97, 114>>, "VAR">>,
      <<<<119, 104, 105, 108, 101>>, "WHILE">>>>

\* a match that takes the first keyword the identifier begins with
KeywordByPrefix(ident, line) ==
    LET hits == {i \in DOMAIN Keywords :
                    /\ Len(Keywords[i][1]) <= Len(ident)
                    /\ SubSeq(ident, 1, Len(Keywords[i][1])) = Keywords[i][1]}
    IN  IF hits = {} THEN Token("IDENTIFIER", line, 0, ident, NilV)
        ELSE FixedToken(Keywords[CHOOSE i \in hits : \A j \in hits : i <= j][2], line)

\* match &*ident { "and" => AND(starting_line), ..., _ => IDENTIFIER((starting_line, ident)) }
Keyword(ident, line) ==
    LET hits == {i \in DOMAIN Keywords : Keywords[i][1] = ident}
    IN  IF hits = {} THEN Token("IDENTIFIER", line, 0, ident, NilV)
        ELSE FixedToken(Keywords[CHOOSE i \in hits : TRUE][2], line)

\* the loop of a number: [lx, kind, text]
RECURSIVE next_number(_, _, _)
NumberByte(r, number, period_found) ==
    IF r.kind = "Some" /\ IsDigit(r.byte)
    THEN next_number(r.lx, Append(number, r.byte), period_found)
    ELSE IF r.kind = "Some" /\ r.byte = 46 /\ ~period_found
    THEN next_number(r.lx, Append(number, 46), TRUE)
    ELSE IF r.kind = "Some" THEN [lx |-> set_peek(r.lx, r.byte), kind |-> "Some", text |-> number]
    ELSE IF r.kind = "None" THEN [lx |-> r.lx, kind |-> "Some", text |-> number]
    ELSE [lx |-> r.lx, kind |-> "Err", text |-> number]
next_number(lx, number, period_found) == NumberByte(next_byte(lx), number, period_found)

\* number.parse() of digits with at most one period (it never fails on these): the
\* digits before the period, over the power of ten of the digits after it
RECURSIVE Digits(_)
Digits(text) ==
    IF text = <<>> THEN 0 ELSE 10 * Digits(SubSeq(text, 1, Len(text) - 1)) + (text[Len(text)] - 48)
RECURSIVE Pow10(_)
Pow10(k) == IF k = 0 THEN 1 ELSE 10 * Pow10(k - 1)
ParseNumber(text) ==
    LET periods == {i \in DOMAIN text : text[i] = 46}
        at == IF periods = {} THEN Len(text) + 1 ELSE CHOOSE i \in periods : TRUE
        whole == SubSeq(text, 1, at - 1)
        fraction == SubSeq(text, at + 1, Len(text))
    IN  NumberV(Digits(whole \o fraction), Pow10(Len(fraction)))

\* the match on the byte after !, =, < or >: [lx, kind, token kind]
next_operator(r, two, one) ==
    IF r.kind = "Some" /\ r.byte = 61 THEN [lx |-> r.lx, kind |-> "Some", token |-> two]
    ELSE IF r.kind = "Some" THEN [lx |-> set_peek(r.lx, r.byte), kind |-> "Some", token |-> one]
    ELSE IF r.kind = "None" THEN [lx |-> r.lx, kind |-> "Some", token |-> one]
    ELSE [lx |-> r.lx, kind |-> "Err", token |-> one]

\* the loop of a string literal: [lx, kind, text], kind "None" when the input ends
\* before the closing quote
RECURSIVE next_string(_, _)
StringByte(r, buf) ==
    IF r.kind = "Some" /\ r.byte = 10 THEN next_string(line_inc(r.lx), Append(buf, 10))
    ELSE IF r.kind = "Some" /\ r.byte = 34 THEN [lx |-> r.lx, kind |-> "Some", text |-> buf]
    ELSE IF r.kind = "Some" THEN next_string(r.lx, Append(buf, r.byte))
    ELSE [lx |-> r.lx, kind |-> r.kind, text |-> buf]
next_string(lx, buf) == StringByte(next_byte(lx), buf)

\* String::from_utf8 accepts the bytes: each scalar is encoded in its shortest form,
\* is no surrogate and is at most U+10FFFF
RECURSIVE Utf8Valid(_)
Utf8Valid(s) ==
    LET Cont(i) == i <= Len(s) /\ s[i] \in 128..191
    IN  IF s = <<>> THEN TRUE
        ELSE IF s[1] < 128 THEN Utf8Valid(Tail(s))
        ELSE IF s[1] \in 194..223 THEN Cont(2) /\ Utf8Valid(SubSeq(s, 3, Len(s)))
        ELSE IF s[1] \in 224..239
        THEN /\ Cont(2) /\ Cont(3)
             /\ s[1] = 224 => s[2] >= 160
             /\ s[1] = 237 => s[2] <= 159
             /\ Utf8Valid(SubSeq(s, 4, Len(s)))
        ELSE IF s[1] \in 240..244
        THEN /\ Cont(2) /\ Cont(3) /\ Cont(4)
             /\ s[1] = 240 => s[2] >= 144
             /\ s[1] = 244 => s[2] <= 143
             /\ Utf8Valid(SubSeq(s, 5, Len(s)))
        ELSE FALSE

\* the results of the loops turned into what next returns
IdentFound(r, first, line) ==
    IF r.kind = "Err" THEN Returned(r.lx, LexerError("Io", first))
    ELSE Found(r.lx, first, Keyword(r.text, line))
NumberFound(r, first, line) ==
    IF r.kind = "Err" THEN Returned(r.lx, LexerError("Io", first))
    ELSE Found(r.lx, first, Token("NUMBER", line, 0, r.text, ParseNumber(r.text)))
OperatorFound(r, first, line) ==
    IF r.kind = "Err" THEN Returned(r.lx, LexerError("Io", first))
    ELSE Found(r.lx, first, FixedToken(r.token, line))
StringFound(r, first, line) ==
    IF r.kind = "Err" THEN Returned(r.lx, LexerError("Io", first))
    ELSE IF r.kind = "None"
    THEN Returned(r.lx, LexerCompileError("Unterminated string.", first))
    ELSE IF ~Utf8Valid(r.text) THEN Returned(r.lx, LexerError("Utf8", first))
    ELSE Found(r.lx, first, Token("STRING", line, r.lx.line, r.text, NilV))

\* the match on the first byte of the token, read in the state lx
TokenFrom(lx, byte, first) ==
    CASE IsAlpha(byte) -> IdentFound(next_ident(lx, <<byte>>), first, lx.line)
      [] IsDigit(byte) -> NumberFound(next_number(lx, <<byte>>, FALSE), first, lx.line)
          [] byte = 40 -> Found(lx, first, FixedToken("LEFT_PAREN", lx.line))
          [] byte = 41 -> Found(lx, first, FixedToken("RIGHT_PAREN", lx.line))
          [] byte = 123 -> Found(lx, first, FixedToken("LEFT_BRACE", lx.line))
          [] byte = 125 -> Found(lx, first, FixedToken("RIGHT_BRACE", lx.line))
          [] byte = 59 -> Found(lx, first, FixedToken("SEMICOLON", lx.line))
          [] byte = 44 -> Found(lx, first, FixedToken("COMMA", lx.line))
          [] byte = 46 -> Found(lx, first, FixedToken("DOT", lx.line))
          [] byte = 45 -> Found(lx, first, FixedToken("MINUS", lx.line))
          [] byte = 43 -> Found(lx, first, FixedToken("PLUS", lx.line))
          [] byte = 47 -> Found(lx, first, FixedToken("SLASH", lx.line))
          [] byte = 42 -> Found(lx, first, FixedToken("STAR", lx.line))
      [] byte = 33 ->
            OperatorFound(next_operator(next_byte(lx), "BANG_EQUAL", "BANG"), first, lx.line)
      [] byte = 61 ->
            OperatorFound(next_operator(next_byte(lx), "EQUAL_EQUAL", "EQUAL"), first, lx.line)
      [] byte = 60 ->
            OperatorFound(next_operator(next_byte(lx), "LESS_EQUAL", "LESS"), first, lx.line)
      [] byte = 62 ->
            OperatorFound(next_operator(next_byte(lx), "GREATER_EQUAL", "GREATER"), first,
                          lx.line)
      [] byte = 34 -> StringFound(next_string(lx, <<>>), first, lx.line)
      [] OTHER -> Returned(lx, LexerCompileError("Unexpected character.", first))

\* Lexer::next (Iterator): [lx, item]
Skipped(r) ==
    IF r.kind = "None" THEN Returned(r.lx, ItemNone)
    ELSE IF r.kind = "Err" THEN Returned(r.lx, LexerError("Io", 0))
    ELSE TokenFrom(r.lx, r.byte, Consumed(r.lx))
next(lx) == Skipped(next_skip(lx))

\* impl Display for Token: the text a token is written as (a NUMBER is written by the
\* formatter of the host and is kept as its digits)
FixedTexts ==
    <<<<"LEFT_PAREN", <<40>>>>,
      <<"RIGHT_PAREN", <<41>>>>,
      <<"LEFT_BRACE", <<123>>>>,
      <<"RIGHT_BRACE", <<125>>>>,
      <<"SEMICOLON", <<59>>>>,
      <<"COMMA", <<44>>>>,
      <<"DOT", <<46>>>>,
      <<"MINUS", <<45>>>>,
      <<"PLUS", <<43>>>>,
      <<"SLASH", <<47>>>>,
      <<"STAR", <<42>>>>,
      <<"BANG_EQUAL", <<33, 61>>>>,
      <<"BANG", <<33>>>>,
      <<"EQUAL_EQUAL", <<61, 61>>>>,
      <<"EQUAL", <<61>>>>,
      <<"LESS_EQUAL", <<60, 61>>>>,
      <<"LESS", <<60>>>>,
      <<"GREATER_EQUAL", <<62, 61>>>>,
      <<"GREATER", <<62>>>>>>
TokenText(token) ==
    CASE token.kind \in {"IDENTIFIER", "NUMBER"} -> token.text
      [] token.kind = "STRING" -> <<34>> \o token.text \o <<34>>
      [] \E i \in DOMAIN Keywords : Keywords[i][2] = token.kind ->
            Keywords[CHOOSE i \in DOMAIN Keywords : Keywords[i][2] = token.kind][1]
      [] OTHER -> FixedTexts[CHOOSE i \in DOMAIN FixedTexts : FixedTexts[i][1] = token.kind][2]

-----------------------------------------------------------------------------
(* The inputs: source units, files and command lines *)

N(n) == ENumber(n, 1)
V(name) == EVariable(name, 1)
Str(s) == EString(s, 1)
Bin(lhs, op, rhs) == EBinary(lhs, op, rhs)
Call0(name) == ECall(V(name), <<>>, 1)
Var1(name, init) == SVar(name, 1, TRUE, init, 1)
Print1(e) == SPrint(e, 1)
Expr1(e) == SExpr(e, 1)
Fun1(name, params, body) == SFun(name, 1, [i \in DOMAIN params |-> <<1, params[i]>>], body, 1)
NoStmt == SExpr(ENil(0), 0)

\* print 1 + 2;
P_add == <<Print1(Bin(N(1), "Add", N(2)))>>
\* var a = "hi"; var b = "hi"; print a + b; print a == b;
P_strings == <<Var1(S_a, Str(S_hi)), Var1(S_b, Str(S_hi)), Print1(Bin(V(S_a), "Add", V(S_b))),
               Print1(Bin(V(S_a), "Equal", V(S_b)))>>
\* var a = 0;
\* while (a < 2) { print a; a = a + 1; }
P_while == <<Var1(S_a, N(0)),
             SWhile(Bin(EVariable(S_a, 2), "Less", ENumber(2, 2)), 2,
                    SBlock(<<SPrint(EVariable(S_a, 2), 2),
                             SExpr(EAssign(S_a, 2, Bin(EVariable(S_a, 2), "Add", ENumber(1, 2))), 2)>>,
                           2))>>
\* fun f(a) { if (a < 1) return a; return f(a - 1); }
\* print f(2);
P_recurse == <<Fun1(S_f, <<S_a>>,
                    <<SIf(Bin(V(S_a), "Less", N(1)), 1, SReturn(1, TRUE, V(S_a), 1), FALSE, NoStmt),
                      SReturn(1, TRUE, ECall(V(S_f), <<Bin(V(S_a), "Sub", N(1))>>, 1), 1)>>),
               SPrint(ECall(EVariable(S_f, 2), <<ENumber(2, 2)>>, 2), 2)>>
\* var x = 1; { var x = 2; print x; } print x;
P_shadow == <<Var1(S_x, N(1)), SBlock(<<Var1(S_x, N(2)), Print1(V(S_x))>>, 1), Print1(V(S_x))>>
\* -"hi";
P_neg_string == <<Expr1(EUnary("Neg", Str(S_hi)))>>
\* print clock() >= 0; print clock(1, 2) >= 0;
P_clock == <<Print1(Bin(Call0(S_clock), "GreaterEqual", N(0))),
             Print1(Bin(ECall(V(S_clock), <<N(1), N(2)>>, 1), "GreaterEqual", N(0)))>>
\* print clock == clock;
P_native_eq == <<Print1(Bin(V(S_clock), "Equal", V(S_clock)))>>
\* fun f() {} print f; print f == f; var g = f; print g == f; print f == clock;
P_closure == <<Fun1(S_f, <<>>, <<>>), Print1(V(S_f)), Print1(Bin(V(S_f), "Equal", V(S_f))),
               Var1(S_g, V(S_f)), Print1(Bin(V(S_g), "Equal", V(S_f))),
               Print1(Bin(V(S_f), "Equal", V(S_clock)))>>
\* { var x = x; }
P_own_init == <<SBlock(<<Var1(S_x, V(S_x))>>, 1)>>
\* fun f() { f(); } f();
P_overflow == <<Fun1(S_f, <<>>, <<Expr1(Call0(S_f))>>), Expr1(Call0(S_f))>>
\* fun f(a) {} f();
P_arity == <<Fun1(S_f, <<S_a>>, <<>>), Expr1(Call0(S_f))>>
\* print nil; print true; print false; print "hi"; print clock;
P_display == <<Print1(ENil(1)), Print1(ETrue(1)), Print1(EFalse(1)), Print1(Str(S_hi)),
               Print1(V(S_clock))>>
\* print nil == nil; print nil == false; print true == true; print true == false;
\* print 1 == 1; print 1 == 2; print "hi" == 1; print "hi" == "a"; print 1 != 2;
P_equal == <<Print1(Bin(ENil(1), "Equal", ENil(1))), Print1(Bin(ENil(1), "Equal", EFalse(1))),
             Print1(Bin(ETrue(1), "Equal", ETrue(1))), Print1(Bin(ETrue(1), "Equal", EFalse(1))),
             Print1(Bin(N(1), "Equal", N(1))), Print1(Bin(N(1), "Equal", N(2))),
             Print1(Bin(Str(S_hi), "Equal", N(1))), Print1(Bin(Str(S_hi), "Equal", Str(S_a))),
             Print1(Bin(N(1), "NotEqual", N(2)))>>
\* { var a = 1; a = 2; print a; }
P_local == <<SBlock(<<Var1(S_a, N(1)), Expr1(EAssign(S_a, 1, N(2))), Print1(V(S_a))>>, 1)>>
\* print 1 > 2 or 2 <= 3 and 4 >= 4; print 6 / 3 * 2 - 1; print !true;
P_operators == <<Print1(Bin(Bin(N(1), "Greater", N(2)), "Or",
                            Bin(Bin(N(2), "LessEqual", N(3)), "And",
                                Bin(N(4), "GreaterEqual", N(4))))),
                 Print1(Bin(Bin(Bin(N(6), "Div", N(3)), "Mul", N(2)), "Sub", N(1))),
                 Print1(EUnary("Not", ETrue(1)))>>
\* if (true) print 1; else print 2;
\* if (nil) print 3;
P_if == <<SIf(ETrue(1), 1, Print1(N(1)), TRUE, Print1(N(2))),
          SIf(ENil(2), 2, SPrint(ENumber(3, 2), 2), FALSE, NoStmt)>>
\* a = 1;
P_set_undefined == <<Expr1(EAssign(S_a, 1, N(1)))>>
\* print a;
P_get == <<Print1(V(S_a))>>
\* fun f() { fun g() {} return g; } print f() == f();
P_fresh_closures == <<Fun1(S_f, <<>>, <<Fun1(S_g, <<>>, <<>>), SReturn(1, TRUE, V(S_g), 1)>>),
                      Print1(Bin(Call0(S_f), "Equal", Call0(S_f)))>>
\* "hi"();
P_call_string == <<Expr1(ECall(Str(S_hi), <<>>, 1))>>
\* fun f(a, b) { return a + b; } print f(1, 2);
P_args == <<Fun1(S_f, <<S_a, S_b>>, <<SReturn(1, TRUE, Bin(V(S_a), "Add", V(S_b)), 1)>>),
            Print1(ECall(V(S_f), <<N(1), N(2)>>, 1))>>
\* return 1;
P_return_top == <<SReturn(1, TRUE, N(1), 1)>>
\* var a = 1;
P_define == <<Var1(S_a, N(1))>>
\* a = a + 1;
P_increment == <<Expr1(EAssign(S_a, 1, Bin(V(S_a), "Add", N(1))))>>
\* { var a = 0; while (a < 2) var b = a = a + 1; }
P_loop_decl == <<SBlock(<<Var1(S_a, N(0)),
                         SWhile(Bin(V(S_a), "Less", N(2)), 1,
                                Var1(S_b, EAssign(S_a, 1, Bin(V(S_a), "Add", N(1)))))>>, 1)>>
\* var x = 1;
\* { var x = 2;
\*   { var x = x = 3; } }
P_own_init_outer == <<Var1(S_x, N(1)),
                      SBlock(<<SVar(S_x, 2, TRUE, ENumber(2, 2), 2),
                               SBlock(<<SVar(S_x, 3, TRUE, EAssign(S_x, 3, ENumber(3, 3)), 3)>>,
                                      3)>>, 3)>>
\* {
\*   var a = 1;
\*   var a = 2; }
P_redeclare == <<SBlock(<<SVar(S_a, 2, TRUE, ENumber(1, 2), 2),
                          SVar(S_a, 3, TRUE, ENumber(2, 3), 3)>>, 3)>>
\* fun f() {
\*   return -"hi";
\* }
\* fun g() { return f(); }
\* print
\*   g();
P_trace == <<SFun(S_f, 1, <<>>, <<SReturn(2, TRUE, EUnary("Neg", EString(S_hi, 2)), 2)>>, 3),
             SFun(S_g, 4, <<>>, <<SReturn(4, TRUE, ECall(EVariable(S_f, 4), <<>>, 4), 4)>>, 4),
             SPrint(ECall(EVariable(S_g, 6), <<>>, 6), 6)>>
\* var clock = 1; print clock; var clock = 2; print clock;
P_redefine == <<Var1(S_clock, N(1)), Print1(V(S_clock)), Var1(S_clock, N(2)), Print1(V(S_clock))>>
\* print nil and 1; print 1 and 2; print false or 3; print 4 or 5; print nil and (a = 1);
P_logic == <<Print1(Bin(ENil(1), "And", N(1))), Print1(Bin(N(1), "And", N(2))),
             Print1(Bin(EFalse(1), "Or", N(3))), Print1(Bin(N(4), "Or", N(5))),
             Print1(Bin(ENil(1), "And", EAssign(S_a, 1, N(1))))>>
\* fun f() {}
\* print !0; print !""; print !clock; print !f; print !nil; print !false; print !true;
\* if (0) print 1; if ("") print 2; while (nil) print 3;
\* print 0 and 4; print "" and 5; print clock or 6; print f or 7; print nil or 8;
\* print false and 9;
P_truthy == <<Fun1(S_f, <<>>, <<>>),
              Print1(EUnary("Not", N(0))), Print1(EUnary("Not", Str(<<>>))),
              Print1(EUnary("Not", V(S_clock))), Print1(EUnary("Not", V(S_f))),
              Print1(EUnary("Not", ENil(1))), Print1(EUnary("Not", EFalse(1))),
              Print1(EUnary("Not", ETrue(1))),
              SIf(N(0), 1, Print1(N(1)), FALSE, NoStmt),
              SIf(Str(<<>>), 1, Print1(N(2)), FALSE, NoStmt),
              SWhile(ENil(1), 1, Print1(N(3))),
              Print1(Bin(N(0), "And", N(4))), Print1(Bin(Str(<<>>), "And", N(5))),
              Print1(Bin(V(S_clock), "Or", N(6))), Print1(Bin(V(S_f), "Or", N(7))),
              Print1(Bin(ENil(1), "Or", N(8))), Print1(Bin(EFalse(1), "And", N(9)))>>

\* fun f(a, b, x) { print a; print b; print x; } f(1, 2, 3);
P_params == <<Fun1(S_f, <<S_a, S_b, S_x>>, <<Print1(V(S_a)), Print1(V(S_b)), Print1(V(S_x))>>),
              Expr1(ECall(V(S_f), <<N(1), N(2), N(3)>>, 1))>>

\* { if (nil) var b = 1; var a = 2; print a; }
P_if_decl == <<SBlock(<<SIf(ENil(1), 1, Var1(S_b, N(1)), FALSE, NoStmt),
                        Var1(S_a, N(2)), Print1(V(S_a))>>, 1)>>

\* var a = 5; fun f() { var a = 1; fun g() { return a; } return g() + a; } print f();
P_enclosing ==
    <<Var1(S_a, N(5)),
      Fun1(S_f, <<>>, <<Var1(S_a, N(1)),
                        Fun1(S_g, <<>>, <<SReturn(1, TRUE, V(S_a), 1)>>),
                        SReturn(1, TRUE, Bin(Call0(S_g), "Add", V(S_a)), 1)>>),
      Print1(Call0(S_f))>>
\* fun f(x) { fun g() { return x; } return g(); } print f(1);
P_enclosing_param ==
    <<Fun1(S_f, <<S_x>>, <<Fun1(S_g, <<>>, <<SReturn(1, TRUE, V(S_x), 1)>>),
                           SReturn(1, TRUE, Call0(S_g), 1)>>),
      Print1(ECall(V(S_f), <<N(1)>>, 1))>>

\* fun f() { fun g() {} return g; } f(); var b = f(); print "hi" + "a"; print b == b;
P_garbage ==
    <<Fun1(S_f, <<>>, <<Fun1(S_g, <<>>, <<>>), SReturn(1, TRUE, V(S_g), 1)>>),
      Expr1(Call0(S_f)),
      Var1(S_b, Call0(S_f)),
      Print1(Bin(Str(S_hi), "Add", Str(S_a))),
      Print1(Bin(V(S_b), "Equal", V(S_b)))>>

\* fun f() {} fun g(a) { var b = a; return b == f; } print g(f);
P_closure_copies ==
    <<Fun1(S_f, <<>>, <<>>),
      Fun1(S_g, <<S_a>>, <<Var1(S_b, V(S_a)), SReturn(1, TRUE, Bin(V(S_b), "Equal", V(S_f)), 1)>>),
      Print1(ECall(V(S_g), <<V(S_f)>>, 1))>>

\* source units of one statement whose operator meets operands of the wrong types:
\*   1 + "hi";  "hi" + 1;  nil + nil;  true + "hi";  clock + 1;
\*   "hi" - 1;  1 - "hi";  nil * 2;  2 * nil;  true / 1;  1 / true;
\*   clock > 1;  1 > clock;  "hi" >= "a";  1 >= nil;  nil < 1;  1 < "hi";
\*   "hi" <= 1;  1 <= true;  nil - true;
\*   -nil;  -true;  -clock;  nil();  1();  true();
\* and one of a concatenation:  print "hi" + "a";
P_operand_types ==
    <<<<Expr1(Bin(N(1), "Add", Str(S_hi)))>>,
      <<Expr1(Bin(Str(S_hi), "Add", N(1)))>>,
      <<Expr1(Bin(ENil(1), "Add", ENil(1)))>>,
      <<Expr1(Bin(ETrue(1), "Add", Str(S_hi)))>>,
      <<Expr1(Bin(V(S_clock), "Add", N(1)))>>,
      <<Expr1(Bin(Str(S_hi), "Sub", N(1)))>>,
      <<Expr1(Bin(N(1), "Sub", Str(S_hi)))>>,
      <<Expr1(Bin(ENil(1), "Mul", N(2)))>>,
      <<Expr1(Bin(N(2), "Mul", ENil(1)))>>,
      <<Expr1(Bin(ETrue(1), "Div", N(1)))>>,
      <<Expr1(Bin(N(1), "Div", ETrue(1)))>>,
      <<Expr1(Bin(V(S_clock), "Greater", N(1)))>>,
      <<Expr1(Bin(N(1), "Greater", V(S_clock)))>>,
      <<Expr1(Bin(Str(S_hi), "GreaterEqual", Str(S_a)))>>,
      <<Expr1(Bin(N(1), "GreaterEqual", ENil(1)))>>,
      <<Expr1(Bin(ENil(1), "Less", N(1)))>>,
      <<Expr1(Bin(N(1), "Less", Str(S_hi)))>>,
      <<Expr1(Bin(Str(S_hi), "LessEqual", N(1)))>>,
      <<Expr1(Bin(N(1), "LessEqual", ETrue(1)))>>,
      <<Expr1(Bin(ENil(1), "Sub", ETrue(1)))>>,
      <<Expr1(EUnary("Neg", ENil(1)))>>,
      <<Expr1(EUnary("Neg", ETrue(1)))>>,
      <<Expr1(EUnary("Neg", V(S_clock)))>>,
      <<Expr1(ECall(ENil(1), <<>>, 1))>>,
      <<Expr1(ECall(N(1), <<>>, 1))>>,
      <<Expr1(ECall(ETrue(1), <<>>, 1))>>,
      <<Print1(Bin(Str(S_hi), "Add", Str(S_a)))>>>>

\* what the lexer and the parser make of a source unit: the statements, or the kind of
\* the Err (Compile from the lexer, Parse from the grammar, ParseFloat and Utf8 from a
\* literal, Io from reading the text)
Parsed(body) == [ok |-> TRUE, body |-> body, kind |-> "None"]
Unparsed(kind) == [ok |-> FALSE, body |-> <<>>, kind |-> kind]

Sources == <<Parsed(P_add), Parsed(P_strings), Parsed(P_while), Parsed(P_recurse),
             Parsed(P_shadow), Parsed(P_neg_string), Parsed(P_clock), Parsed(P_native_eq),
             Parsed(P_closure), Parsed(P_own_init), Parsed(P_overflow), Parsed(P_arity),
             Parsed(P_display), Parsed(P_equal), Parsed(P_local), Parsed(P_operators),
             Parsed(P_if), Parsed(P_set_undefined), Parsed(P_get), Parsed(P_fresh_closures),
             Parsed(P_call_string), Parsed(P_args), Parsed(P_return_top), Parsed(P_define),
             Parsed(P_increment), Parsed(P_loop_decl), Parsed(P_redefine),
             Parsed(P_logic), Parsed(P_truthy), Parsed(P_own_init_outer),
             Parsed(P_redeclare), Parsed(P_trace),
             Parsed(P_params), Parsed(P_closure_copies), Parsed(P_if_decl),
             Parsed(P_enclosing), Parsed(P_enclosing_param), Parsed(P_garbage),
             Unparsed("Compile"), Unparsed("Parse"), Unparsed("ParseFloat"),
             Unparsed("Utf8"), Unparsed("Io")>>
           \o [i \in DOMAIN P_operand_types |-> Parsed(P_operand_types[i])]

\* the source units with the given statements
SourceOf(body) == CHOOSE i \in DOMAIN Sources : Sources[i].ok /\ Sources[i].body = body
SourceFailing(kind) == CHOOSE i \in DOMAIN Sources : ~Sources[i].ok /\ Sources[i].kind = kind

\* parse (main.rs) with the lexer and the grammar behind it
parse(source) == Sources[source]

\* a file: Lox source, bytes, an empty file, or a path File::open fails on
SourceFile(source) == [kind |-> "source", source |-> source, bytes |-> <<>>]
BytesFile(bytes) == [kind |-> "bytes", source |-> 0, bytes |-> bytes]
EmptyFile == [kind |-> "empty", source |-> 0, bytes |-> <<>>]
MissingFile == [kind |-> "missing", source |-> 0, bytes |-> <<>>]

\* a script of one Function constant (an unnamed function of empty name, code Nil Return):
\*   Constant 0; Constant 0; Equal; Print; GetLocal 0; Print; Nil; Return
B_function_eq ==
    <<Magic, 1, 5>> \o U64Le(0) \o <<0, 0>> \o U64Le(2) \o <<Op("Nil"), Op("Return")>>
        \o <<2>> \o U32Le(1) \o <<0>>
    \o U64Le(11)
    \o <<Op("Constant"), 0, Op("Constant"), 0, Op("Equal"), Op("Print"),
         Op("GetLocal"), 0, Op("Print"), Op("Nil"), Op("Return")>>
    \o <<11>> \o U32Le(1) \o <<0>>
\* a script whose one code byte is no opcode
B_bad_opcode == <<Magic, 0>> \o U64Le(1) \o <<255>> \o <<1>> \o U32Le(1) \o <<0>>
\* a script without code
B_no_code == <<Magic, 0>> \o U64Le(0) \o <<0>>
\* a script that pops more than it pushed: Pop; Nil; Return
B_underflow == <<Magic, 0>> \o U64Le(3) \o <<Op("Pop"), Op("Nil"), Op("Return")>>
                   \o <<3>> \o U32Le(1) \o <<0>>
\* a script that fails at run time and has no line for its code: Nil; Neg
B_no_lines == <<Magic, 0>> \o U64Le(2) \o <<Op("Nil"), Op("Neg")>> \o <<0>>
\* the magic byte and nothing after it
B_truncated == <<Magic>>
\* a constant of an unknown tag
B_bad_tag == <<Magic, 1, 9>>

Files == [i \in DOMAIN Sources |-> SourceFile(i)]
         \o <<EmptyFile, MissingFile, BytesFile(B_function_eq), BytesFile(B_bad_opcode),
              BytesFile(B_no_code), BytesFile(B_underflow), BytesFile(B_truncated),
              BytesFile(B_bad_tag), BytesFile(B_no_lines)>>

\* the path File::open fails on
MissingFileIndex == Len(Sources) + 2

\* the lines typed at the REPL
ReplLines == {SourceOf(P_define), SourceOf(P_get), SourceOf(P_increment),
              SourceOf(P_neg_string), SourceOf(P_own_init), SourceOf(P_closure),
              SourceOf(P_loop_decl), SourceFailing("Parse")}

\* struct Args (without --disassemble, which only prints, and -o, which names the
\* file of "output"); file is the index in Files of the file the script path names,
\* or 0 when the path names the file an earlier --compile wrote
Args(has_script, file, compile_flag) ==
    [has_script |-> has_script, file |-> file, compile |-> compile_flag]

ArgsSet == {Args(TRUE, f, c) : f \in DOMAIN Files, c \in BOOLEAN}
           \cup {Args(FALSE, 0, c) : c \in BOOLEAN}

-----------------------------------------------------------------------------
(* The driver (main.rs) *)

NoInput == EmptyFile
NoSer == [f |-> FunctionDefault, heap |-> <<>>]
NoRead == [done |-> FALSE, err |-> NoError, f |-> FunctionDefault, heap |-> <<>>]

\* the state of the process when main is entered: Vm::new()
Init ==
    /\ pc = "start"
    /\ args \in ArgsSet
    /\ input = NoInput
    /\ bytecode = FunctionDefault
    /\ lines_read = 0
    /\ frames = <<>>
    /\ stack = <<>>
    /\ globals = NativeAll
    /\ functions = <<>>
    /\ next_id = 1
    /\ stdout = <<>>
    /\ output = <<>>
    /\ error = NoError
    /\ exit_code = 0
    /\ last_op = NoOp
    /\ ser_in = NoSer
    /\ ser_bytes = <<>>
    /\ ser_out = NoRead
    /\ lexer = NoLexer
    /\ item = NoItem
    /\ ended = 0
    /\ collected = {}

\* the file the script path names
ScriptFile == IF args.file = 0 THEN BytesFile(output) ELSE Files[args.file]

\* main up to the first compile: File::open(script)?, or the check of --compile
\* without a script
Main ==
    /\ pc = "start"
    /\ IF args.has_script
       THEN IF args.file # 0 /\ args.file = MissingFileIndex
            THEN MainReturns(PlainError("Io")) /\ UNCHANGED input
            ELSE pc' = "compile" /\ input' = ScriptFile /\ UNCHANGED <<error, exit_code>>
       ELSE IF args.compile
            THEN MainReturns(PlainError("CompileRepl")) /\ UNCHANGED input
            ELSE pc' = "prompt" /\ UNCHANGED <<input, error, exit_code>>
    /\ UNCHANGED <<vm_vars, args, bytecode, lines_read, output, last_op, ser_vars, lex_vars, collected>>

\* the head of the REPL loop: the prompt is printed and flushed and a line is read
ReplReadLine ==
    /\ pc = "prompt"
    /\ \/ \* stdout.flush()? or stdin.read_line(&mut line)? fails
          MainReturns(PlainError("Io")) /\ UNCHANGED <<input, lines_read>>
       \/ \* line.trim().is_empty(): break, and main returns Ok(())
          MainReturns(NoError) /\ UNCHANGED <<input, lines_read>>
       \/ \E source \in ReplLines :
             /\ lines_read < MaxReplLines
             /\ pc' = "compile"
             /\ input' = SourceFile(source)
             /\ lines_read' = lines_read + 1
             /\ UNCHANGED <<error, exit_code>>
    /\ UNCHANGED <<vm_vars, args, bytecode, output, last_op, ser_vars, lex_vars, collected>>

\* compile (main.rs) of the bytes after the magic byte: FunctionInner::read(&mut source, true)
ReadScript(bytes, heap, ids) == ReadFunction(Reader(bytes, 1, heap, ids), TRUE)

\* what compile (main.rs) returns: [err, function, heap, ids]
Read(r) == [err |-> r.r.err, function |-> r.f, heap |-> r.r.heap, ids |-> r.r.ids]
Compiled(c, ids) == [err |-> c.err, function |-> c.function, heap |-> c.heap, ids |-> ids]
Unparsed_(kind, heap, ids) ==
    [err |-> PlainError(kind), function |-> FunctionDefault, heap |-> heap, ids |-> ids]

\* compile (main.rs): the bytes after the magic byte are read, an empty file is the
\* empty program, anything else is parsed and compiled
CompileInput(in, heap, ids) ==
    IF in.kind = "bytes" THEN Read(ReadScript(in.bytes, heap, ids))
    ELSE IF in.kind = "source" /\ ~parse(in.source).ok
    THEN Unparsed_(parse(in.source).kind, heap, ids)
    ELSE Compiled(compile(IF in.kind = "empty" THEN <<>> ELSE parse(in.source).body, heap), ids)

\* let bytecode = compile(...)?
Compile ==
    /\ pc = "compile"
    /\ \E r \in {CompileInput(input, functions, next_id)} :
           IF r.err.kind # "None"
           THEN MainReturns(r.err) /\ UNCHANGED <<bytecode, functions, next_id>>
           ELSE /\ bytecode' = r.function
                /\ functions' = r.heap
                /\ next_id' = r.ids
                /\ pc' = IF args.has_script /\ args.compile THEN "write" ELSE "interpret"
                /\ UNCHANGED <<error, exit_code>>
    /\ UNCHANGED <<frames, stack, globals, stdout, args, input, lines_read, output, last_op,
                   ser_vars, lex_vars, collected>>

\* --compile: the output is opened and bytecode.write(&mut output)? writes to it
WriteBytecode ==
    /\ pc = "write"
    /\ \/ \* File::create(out_path)? fails
          MainReturns(PlainError("Io")) /\ UNCHANGED output
       \/ \E w \in {WriteFunction(bytecode, functions)} :
              /\ output' = w.bytes
              /\ MainReturns(IF w.panic THEN Panic("write") ELSE NoError)
    /\ UNCHANGED <<vm_vars, args, input, bytecode, lines_read, last_op, ser_vars, lex_vars, collected>>

\* Vm::interpret up to self.run(): the function is wrapped in a new closure, which is
\* pushed and called with no arguments
Interpret ==
    /\ pc = "interpret"
    /\ LET fn == Len(functions) + 1
           closure == ClosureV(next_id, fn)
       IN  /\ functions' = Append(functions, bytecode)
           /\ next_id' = next_id + 1
           /\ stack' = Append(stack, closure)
           /\ IF bytecode.arity # 0
              THEN /\ MainReturns(RuntimeError("Expected {} arguments but got {}.",
                                               <<bytecode.arity, 0>>, frames))
                   /\ UNCHANGED frames
              ELSE IF Len(frames) = FRAMES_MAX
              THEN MainReturns(RuntimeError("Stack overflow.", <<>>, frames)) /\ UNCHANGED frames
              ELSE /\ frames' = Append(frames, CallFrame([id |-> next_id, fn |-> fn], 0, Len(stack)))
                   /\ pc' = "run"
                   /\ UNCHANGED <<error, exit_code>>
    /\ UNCHANGED <<globals, stdout, args, input, bytecode, lines_read, output, last_op, ser_vars, lex_vars, collected>>

\* rlox is started again, on the file the --compile that just ended has written
RunOutput ==
    /\ pc = "exited"
    /\ args.has_script /\ args.compile /\ args.file # 0
    /\ error.kind = "None"
    /\ pc' = "start"
    /\ args' = Args(TRUE, 0, FALSE)
    /\ input' = NoInput
    /\ bytecode' = FunctionDefault
    /\ functions' = <<>>
    /\ next_id' = 1
    /\ error' = NoError
    /\ exit_code' = 0
    /\ collected' = {}
    /\ UNCHANGED <<lines_read, frames, stack, globals, stdout, output, last_op, ser_vars,
                   lex_vars>>

Next == Main \/ ReplReadLine \/ Compile \/ WriteBytecode \/ Interpret \/ RunOutput \/ VmNext

Spec == Init /\ [][Next]_vars

\* the loop of Vm::run goes on to its next instruction as long as there is one
SpecLive == Init /\ [][Next]_vars /\ WF_vars(VmNext)

-----------------------------------------------------------------------------
(* The round trip through the binary format, on its own *)

\* The programs whose chunks are written and read back print a number up to this.
MaxSerNumber == 12

\* print 0; print 1; ... as many statements as a chunk may hold constants
P_many == [i \in 1..(U8Max + 1) |-> Print1(N(i - 1))]

\* the statements of the programs whose chunks go through the round trip
SerPrograms == {Sources[i].body : i \in {j \in DOMAIN Sources : Sources[j].ok}}
               \cup {<<Print1(N(k))>> : k \in 0..MaxSerNumber}
               \cup {<<Var1(S_a, N(k)), Print1(V(S_a))>> : k \in 0..MaxSerNumber}
               \cup {P_many}

\* the chunk of a program with the heap of its nested functions
ChunkOf(c) == [f |-> c.function, heap |-> c.heap]

\* the chunks the compiler produces for them
SerChunks == {ChunkOf(compile(body, <<>>)) :
                 body \in {b \in SerPrograms : ~Failed(compile(b, <<>>))}}

InitSer ==
    /\ pc = "ser_write"
    /\ ser_in \in SerChunks
    /\ ser_bytes = <<>>
    /\ ser_out = NoRead
    /\ args = Args(FALSE, 0, FALSE)
    /\ input = NoInput
    /\ bytecode = FunctionDefault
    /\ lines_read = 0
    /\ frames = <<>>
    /\ stack = <<>>
    /\ globals = NativeAll
    /\ functions = <<>>
    /\ next_id = 1
    /\ stdout = <<>>
    /\ output = <<>>
    /\ error = NoError
    /\ exit_code = 0
    /\ last_op = NoOp
    /\ lexer = NoLexer
    /\ item = NoItem
    /\ ended = 0
    /\ collected = {}

\* FunctionInner::write of the chunk into a buffer
SerWrite ==
    /\ pc = "ser_write"
    /\ \E w \in {WriteFunction(ser_in.f, ser_in.heap)} :
          /\ ser_bytes' = w.bytes
          /\ pc' = IF w.panic THEN "ser_panic" ELSE "ser_read"
    /\ UNCHANGED <<ser_in, ser_out, args, input, bytecode, lines_read, vm_vars, output, error,
                   exit_code, last_op, lex_vars, collected>>

\* what the read of a script returned: done, its Err, and the function with its heap
ReadResult(r) == [done |-> TRUE, err |-> r.r.err, f |-> r.f, heap |-> r.r.heap]

\* compile (main.rs) of the buffer: the magic byte is consumed and
\* FunctionInner::read(&mut source, true) reads the rest
SerRead ==
    /\ pc = "ser_read"
    /\ ser_out' = ReadResult(ReadScript(ser_bytes, <<>>, 1))
    /\ pc' = "ser_done"
    /\ UNCHANGED <<ser_in, ser_bytes, args, input, bytecode, lines_read, vm_vars, output,
                   error, exit_code, last_op, lex_vars, collected>>

NextSer == SerWrite \/ SerRead

SpecSer == InitSer /\ [][NextSer]_vars

-----------------------------------------------------------------------------
(* The run-length encoding of the lines, on its own *)

\* The lines sequences that are written and read back are made of up to this many runs.
MaxRuns == 2

\* the lengths and the lines of the runs
RunLengths == {1, 254, 255, 256, 511}
RunLines == {1, 70000}

\* the lines sequence made of the runs, each a pair of a length and a line
RECURSIVE RunsOf(_)
RunsOf(rs) ==
    IF rs = <<>> THEN <<>>
    ELSE [i \in 1..rs[1][1] |-> rs[1][2]] \o RunsOf(Tail(rs))

LinesInputs ==
    {RunsOf(rs) : rs \in UNION {[1..k -> RunLengths \X RunLines] : k \in 0..MaxRuns}}

InitLines ==
    /\ pc = "lines_write"
    /\ ser_in \in {[f |-> [FunctionDefault EXCEPT !.lines = lns], heap |-> <<>>] :
                       lns \in LinesInputs}
    /\ ser_bytes = <<>>
    /\ ser_out = NoRead
    /\ args = Args(FALSE, 0, FALSE)
    /\ input = NoInput
    /\ bytecode = FunctionDefault
    /\ lines_read = 0
    /\ frames = <<>>
    /\ stack = <<>>
    /\ globals = NativeAll
    /\ functions = <<>>
    /\ next_id = 1
    /\ stdout = <<>>
    /\ output = <<>>
    /\ error = NoError
    /\ exit_code = 0
    /\ last_op = NoOp
    /\ lexer = NoLexer
    /\ item = NoItem
    /\ ended = 0
    /\ collected = {}

\* the end of FunctionInner::write: the lines are written into a buffer
LinesWrite ==
    /\ pc = "lines_write"
    /\ ser_bytes' = WriteLines(ser_in.f.lines)
    /\ pc' = "lines_read"
    /\ UNCHANGED <<ser_in, ser_out, args, input, bytecode, lines_read, vm_vars, output, error,
                   exit_code, last_op, lex_vars, collected>>

\* the end of FunctionInner::read: the lines are read from the buffer
LinesRead ==
    /\ pc = "lines_read"
    /\ \E r \in {ReadLines(Reader(ser_bytes, 0, <<>>, 1), <<>>)} :
          ser_out' = [done |-> TRUE, err |-> r.r.err,
                      f |-> [FunctionDefault EXCEPT !.lines = r.lines], heap |-> <<>>]
    /\ pc' = "lines_done"
    /\ UNCHANGED <<ser_in, ser_bytes, args, input, bytecode, lines_read, vm_vars, output,
                   error, exit_code, last_op, lex_vars, collected>>

NextLines == LinesWrite \/ LinesRead

SpecLines == InitLines /\ [][NextLines]_vars

-----------------------------------------------------------------------------
(* The lexer on its own *)

\* Lexer::next is called at most this many times after it has returned None.
MaxEnds == 3

\* the lexers over the inputs
LexInputs ==
    {
      \* (the empty input)
      Lexer(<<>>, FALSE),
      \* var a = 1;
      Lexer(<<118, 97, 114, 32, 97, 32, 61, 32, 49, 59>>, FALSE),
      \* orchid
      Lexer(<<111, 114, 99, 104, 105, 100>>, FALSE),
      \* fun1 fun
      Lexer(<<102, 117, 110, 49, 32, 102, 117, 110>>, FALSE),
      \* or_ or
      Lexer(<<111, 114, 95, 32, 111, 114>>, FALSE),
      \* and class else false for fun if nil
      Lexer(<<97, 110, 100, 32, 99, 108, 97, 115, 115, 32, 101, 108, 115, 101, 32, 102, 97, 108, 115, 101, 32, 102, 111, 114, 32, 102, 117, 110, 32, 105, 102, 32, 110, 105, 108>>, FALSE),
      \* or print return super this true var while
      Lexer(<<111, 114, 32, 112, 114, 105, 110, 116, 32, 114, 101, 116, 117, 114, 110, 32, 115, 117, 112, 101, 114, 32, 116, 104, 105, 115, 32, 116, 114, 117, 101, 32, 118, 97, 114, 32, 119, 104, 105, 108, 101>>, FALSE),
      \* nil2 While iffy _if
      Lexer(<<110, 105, 108, 50, 32, 87, 104, 105, 108, 101, 32, 105, 102, 102, 121, 32, 95, 105, 102>>, FALSE),
      \* a\nb
      Lexer(<<97, 10, 98>>, FALSE),
      \* // c\nx
      Lexer(<<47, 47, 32, 99, 10, 120>>, FALSE),
      \* x // c
      Lexer(<<120, 32, 47, 47, 32, 99>>, FALSE),
      \* "a\nb" c\n"\n\n"
      Lexer(<<34, 97, 10, 98, 34, 32, 99, 10, 34, 10, 10, 34>>, FALSE),
      \* "abc
      Lexer(<<34, 97, 98, 99>>, FALSE),
      \* \n"a\nb
      Lexer(<<10, 34, 97, 10, 98>>, FALSE),
      \* a @\n#b
      Lexer(<<97, 32, 64, 10, 35, 98>>, FALSE),
      \* /\n/
      Lexer(<<47, 10, 47>>, FALSE),
      \* a/b
      Lexer(<<97, 47, 98>>, FALSE),
      \* 8/
      Lexer(<<56, 47>>, FALSE),
      \* 1.5+2
      Lexer(<<49, 46, 53, 43, 50>>, FALSE),
      \* 1..2
      Lexer(<<49, 46, 46, 50>>, FALSE),
      \* 12a 3.
      Lexer(<<49, 50, 97, 32, 51, 46>>, FALSE),
      \* !a != b
      Lexer(<<33, 97, 32, 33, 61, 32, 98>>, FALSE),
      \* a<=b<c
      Lexer(<<97, 60, 61, 98, 60, 99>>, FALSE),
      \* = == > >=\n!
      Lexer(<<61, 32, 61, 61, 32, 62, 32, 62, 61, 10, 33>>, FALSE),
      \* x=1
      Lexer(<<120, 61, 49>>, FALSE),
      \* (){};,.-+*/
      Lexer(<<40, 41, 123, 125, 59, 44, 46, 45, 43, 42, 47>>, FALSE),
      \* "\xc3\xa9" "\xff"
      Lexer(<<34, 195, 169, 34, 32, 34, 255, 34>>, FALSE),
      \* a\r\n\tb\n\n\nc
      Lexer(<<97, 13, 10, 9, 98, 10, 10, 10, 99>>, FALSE),
      \* a+ (then an I/O error)
      Lexer(<<97, 43>>, TRUE),
      \* "a (then an I/O error)
      Lexer(<<34, 97>>, TRUE),
      \* ab (then an I/O error)
      Lexer(<<97, 98>>, TRUE)
    }

InitLex ==
    /\ pc = "lex"
    /\ lexer \in LexInputs
    /\ item = NoItem
    /\ ended = 0
    /\ collected = {}
    /\ ser_in = NoSer
    /\ ser_bytes = <<>>
    /\ ser_out = NoRead
    /\ args = Args(FALSE, 0, FALSE)
    /\ input = NoInput
    /\ bytecode = FunctionDefault
    /\ lines_read = 0
    /\ frames = <<>>
    /\ stack = <<>>
    /\ globals = NativeAll
    /\ functions = <<>>
    /\ next_id = 1
    /\ stdout = <<>>
    /\ output = <<>>
    /\ error = NoError
    /\ exit_code = 0
    /\ last_op = NoOp

\* one call of Lexer::next
LexNext ==
    /\ pc = "lex"
    /\ ended < MaxEnds
    /\ \E r \in {next(lexer)} :
          /\ lexer' = r.lx
          /\ item' = r.item
          /\ ended' = IF r.item.tag = "None" THEN ended + 1 ELSE ended
    /\ UNCHANGED <<pc, args, input, bytecode, lines_read, vm_vars, output, error, exit_code,
                   last_op, ser_vars, collected>>

NextLex == LexNext

SpecLex == InitLex /\ [][NextLex]_vars

\* deep equality of two values and of two functions, each through its own heap
RECURSIVE DeepEqFunction(_, _, _, _)
RECURSIVE DeepEqValue(_, _, _, _)
DeepEqValue(v, heap_v, w, heap_w) ==
    /\ v.tag = w.tag
    /\ CASE v.tag \in {"Function", "Closure"} ->
                DeepEqFunction(heap_v[v.fn], heap_v, heap_w[w.fn], heap_w)
         [] v.tag = "Number" -> v.n = w.n /\ v.d = w.d
         [] OTHER -> v = w
DeepEqFunction(f, heap_f, g, heap_g) ==
    /\ f.has_name = g.has_name
    /\ f.name = g.name
    /\ f.arity = g.arity
    /\ f.chunk = g.chunk
    /\ f.lines = g.lines
    /\ Len(f.constants) = Len(g.constants)
    /\ \A i \in DOMAIN f.constants :
           DeepEqValue(f.constants[i], heap_f, g.constants[i], heap_g)

-----------------------------------------------------------------------------
(* Properties *)

\* the step in which Vm::interpret returns Ok(()) for a program that was compiled
\* from source
InterpretReturnedOk ==
    /\ pc = "run"
    /\ pc' \in {"exited", "prompt"}
    /\ error'.kind = "None"
    /\ input.kind \in {"source", "empty"}

\* C1: for a program that compiles and whose execution raises no runtime error, when
\* Vm::interpret returns Ok the operand stack is empty and the frame stack is empty
StackBalance == [][InterpretReturnedOk => stack' = <<>> /\ frames' = <<>>]_vars

\* C2: the bytes FunctionInner::write wrote for a chunk of the compiler are read back
\* by FunctionInner::read, after the magic byte, as a chunk deep-equal to it: same
\* name, arity, constants, code bytes and lines
SerializationRoundTrip ==
    pc = "ser_done" =>
        /\ ser_out.err.kind = "None"
        /\ DeepEqFunction(ser_out.f, ser_out.heap, ser_in.f, ser_in.heap)

\* the instruction executed last is an Equal that pushed its result
AfterEqual == last_op.op = "Equal" /\ last_op.outcome = "ok" /\ pc = "run" /\ stack # <<>>

\* two values of one of the tags compared by identity are the same object
SameObject(l, r) ==
    CASE l.tag = "Closure" -> l.id = r.id
      [] l.tag = "Function" -> l.fn = r.fn
      [] l.tag = "NativeFn" -> l.id = r.id

\* C3: Equal compares Closure, Function and NativeFn values by identity: on two
\* references to the same native function, Function or Closure it pushes true, on two
\* distinct closures false
EqualByIdentity ==
    (/\ AfterEqual
     /\ last_op.lhs.tag = last_op.rhs.tag
     /\ last_op.lhs.tag \in {"Closure", "Function", "NativeFn"})
    => Peek(0) = BoolV(SameObject(last_op.lhs, last_op.rhs))

\* equality of Nil, Bool, Number and String values, and of values of different tags
DataEqual(l, r) ==
    /\ l.tag = r.tag
    /\ CASE l.tag = "Nil" -> TRUE
         [] l.tag = "Bool" -> l.b = r.b
         [] l.tag = "Number" -> ~IsNaN(l) /\ ~IsNaN(r) /\ l.n = r.n /\ l.d = r.d
         [] l.tag = "String" -> l.s = r.s
         [] OTHER -> FALSE

\* the step of an Equal on two values of different tags or of a tag compared by content
EqualOnData ==
    /\ Decodes("Equal")
    /\ Len(stack) >= 2
    /\ last_op'.op = "Equal"
    /\ Peek(1).tag # Peek(0).tag \/ Peek(0).tag \in {"Nil", "Bool", "Number", "String"}

\* C4: Equal pops two values and pushes exactly one Bool: false for two values of
\* different tags, true for Nil and Nil, value equality for Bool and for Number, and
\* equality of the bytes for String
EqualByContent ==
    [][EqualOnData => stack' = Append(Popped(2), BoolV(DataEqual(Peek(1), Peek(0))))]_vars

\* two string objects of the same bytes were compared and found equal
EqualByContentWitness ==
    /\ AfterEqual
    /\ last_op.lhs.tag = "String" /\ last_op.rhs.tag = "String"
    /\ last_op.lhs.s = last_op.rhs.s
    /\ Peek(0) = BoolV(TRUE)

\* the text the specification gives a printed value that is no number
PrintedText(v) ==
    CASE v.tag = "Nil" -> S_nil
      [] v.tag = "Bool" -> IF v.b THEN S_true ELSE S_false
      [] v.tag = "String" -> v.s
      [] v.tag = "NativeFn" -> S_native_fn
      [] v.tag \in {"Closure", "Function"} ->
            IF functions[v.fn].has_name
            THEN S_fn_open \o functions[v.fn].name \o S_fn_close
            ELSE S_script

\* C5: Print writes nil as nil, booleans as true and false, strings as their raw text,
\* a closure over a named function as <fn name>, the script function as <script> and
\* a native function as <native fn>
PrintTexts ==
    (last_op.op = "Print" /\ last_op.outcome = "ok" /\ last_op.lhs.tag # "Number")
    => stdout[Len(stdout)] = TextLine(PrintedText(last_op.lhs))

\* C6: in the REPL, when a line fails with a compile error or a runtime error, the
\* loop resumes: it prompts again
ReplResumes ==
    [][(~args.has_script /\ pc \in {"compile", "interpret", "run"}
        /\ error'.kind \in {"Compile", "Runtime"}) => pc' = "prompt"]_vars

CallOfClosure ==
    /\ Decodes("Call")
    /\ last_op'.op = "Call"
    /\ Len(stack) >= Arg1 + 1
    /\ Peek(Arg1).tag = "Closure"

\* the arity of the closure a Call is about to call
CalleeArity == functions[Peek(Arg1).fn].arity

\* the call failed with the message and no frame was pushed
CallFailed(msg, fmt_args) ==
    /\ pc' = "exited"
    /\ error'.kind = "Runtime" /\ error'.msg = msg /\ error'.fmt_args = fmt_args
    /\ Len(frames') = Len(frames)

\* C9: the frame stack never holds more than FRAMES_MAX frames; a Call of a closure
\* with matching arity while FRAMES_MAX frames are active fails with "Stack overflow."
\* and pushes no frame, with fewer frames active it succeeds
FramesBounded ==
    [][/\ Len(frames') <= FRAMES_MAX
       /\ (CallOfClosure /\ CalleeArity = Arg1) =>
             IF Len(frames) = FRAMES_MAX
             THEN CallFailed("Stack overflow.", <<>>)
             ELSE pc' = "run" /\ error'.kind = "None" /\ Len(frames') = Len(frames) + 1]_vars

\* a recursion has filled the frame stack and its next call has failed
FramesBoundedWitness ==
    /\ pc = "exited"
    /\ error.kind = "Runtime" /\ error.msg = "Stack overflow."
    /\ last_op.op = "Call" /\ last_op.lhs.tag = "Closure"
    /\ Len(frames) = FRAMES_MAX

\* exactly one frame was pushed, with ip = 0 and base = stack.len() - n - 1, and the
\* operand stack is unchanged
OneFramePushed ==
    /\ frames' = Append(Advanced(1),
                        CallFrame([id |-> Peek(Arg1).id, fn |-> Peek(Arg1).fn], 0,
                                  Len(stack) - Arg1 - 1))
    /\ stack' = stack

\* C10 (amended): Call n on a closure: if its arity equals n and fewer than FRAMES_MAX
\* frames are active, exactly one frame is pushed with ip = 0 and
\* base = stack.len() - n - 1 and the operand stack is unchanged; if its arity differs
\* from n the call fails with "Expected <arity> arguments but got <n>." and no frame
\* is pushed
CallPushesFrame ==
    [][CallOfClosure =>
          /\ (CalleeArity = Arg1 /\ Len(frames) < FRAMES_MAX) => OneFramePushed
          /\ CalleeArity # Arg1 =>
                CallFailed("Expected {} arguments but got {}.", <<CalleeArity, Arg1>>)]_vars

\* a closure of two parameters was called with two arguments
CallPushesFrameWitness ==
    /\ pc = "run"
    /\ last_op.op = "Call" /\ last_op.outcome = "ok" /\ last_op.lhs.tag = "Closure"
    /\ last_op.n = 2
    /\ Len(frames) = 2
    /\ Frame.ip = 0 /\ Frame.slots_start = Len(stack) - 3

\* C10 as stated: whenever the arity equals n, exactly one frame is pushed
CallAlwaysPushesFrame ==
    [][(CallOfClosure /\ CalleeArity = Arg1) => OneFramePushed]_vars

\* the step of a Call n whose peek(n) is a native function
CallOfNative ==
    /\ Decodes("Call")
    /\ last_op'.op = "Call"
    /\ Len(stack) >= Arg1 + 1
    /\ Peek(Arg1).tag = "NativeFn"

\* C11: Call n where peek(n) is a NativeFn invokes the native with exactly the top n
\* stack values in push order, removes those n values and the callee and pushes the
\* single result, so the stack is n slots shorter than before; the frame stack is
\* unchanged
NativeCallEffect ==
    [][CallOfNative =>
          /\ \E result \in NativeResults(Peek(Arg1).id,
                                         [i \in 1..Arg1 |-> stack[Len(stack) - Arg1 + i]]) :
                stack' = SubSeq(stack, 1, Len(stack) - Arg1 - 1) \o <<result>>
          /\ Len(stack') = Len(stack) - Arg1
          /\ frames' = Advanced(1)
          /\ pc' = "run"]_vars

\* clock was called with two arguments and its reading replaced them and the callee
NativeCallEffectWitness ==
    /\ pc = "run"
    /\ last_op.op = "Call" /\ last_op.outcome = "ok" /\ last_op.lhs.tag = "NativeFn"
    /\ last_op.n = 2
    /\ Peek(0) = last_op.rhs /\ Peek(0).tag = "Number"
    /\ Len(frames) = 1

\* the step of a Return that finds a result to pop
ReturnStep ==
    /\ Decodes("Return")
    /\ last_op'.op = "Return"
    /\ Len(stack) >= 1

\* the frame is popped, the callee with its arguments and locals is replaced by the
\* result, and the slots of the caller below the base are as they were
ReturnedToCaller ==
    /\ frames' = SubSeq(frames, 1, Len(frames) - 1)
    /\ Len(stack') = Frame.slots_start + 1
    /\ \A i \in 1..Frame.slots_start : stack'[i] = stack[i]
    /\ stack'[Frame.slots_start + 1] = Peek(0)
    /\ pc' = "run"

\* the script placeholder is popped after the result and interpret ends with Ok
ReturnedFromScript ==
    /\ Len(stack) >= 2
    /\ frames' = <<>>
    /\ stack' = SubSeq(stack, 1, Len(stack) - 2)
    /\ pc' \in {"exited", "prompt"}
    /\ error'.kind = "None"

SetGlobalStep ==
    /\ Decodes("SetGlobal")
    /\ last_op'.op = "SetGlobal"
    /\ Arg1 < Len(Fn.constants)
    /\ Fn.constants[Arg1 + 1].tag = "String"
    /\ Len(stack) >= 1

\* the name a global instruction is about
GlobalName == Fn.constants[Arg1 + 1].s

\* run ended with the runtime error "Undefined variable '<name>'."
UndefinedVariable(name) ==
    /\ pc' = "exited"
    /\ error'.kind = "Runtime"
    /\ error'.msg = "Undefined variable '{}'." /\ error'.fmt_args = <<name>>

\* C13: SetGlobal k on a name without a global binding fails with "Undefined variable
\* '<name>'." and leaves the globals map exactly as it was (no new binding); on a name
\* with a binding it overwrites the binding with peek(0) and does not pop
SetGlobalEffect ==
    [][SetGlobalStep =>
          IF GlobalName \in DOMAIN globals
          THEN /\ DOMAIN globals' = DOMAIN globals
               /\ globals'[GlobalName] = Peek(0)
               /\ \A k \in DOMAIN globals \ {GlobalName} : globals'[k] = globals[k]
               /\ stack' = stack
               /\ pc' = "run"
          ELSE /\ UndefinedVariable(GlobalName)
               /\ globals' = globals]_vars

\* an assignment to a global that was never defined has failed and bound nothing
SetGlobalEffectWitness ==
    /\ pc = "exited"
    /\ last_op.op = "SetGlobal" /\ last_op.outcome = "error"
    /\ error.kind = "Runtime" /\ error.msg = "Undefined variable '{}'."
    /\ error.fmt_args = <<S_a>>
    /\ S_a \notin DOMAIN globals

\* the step of a DefineGlobal k or GetGlobal k whose constant k is a name
GlobalStep(op) ==
    /\ Decodes(op)
    /\ last_op'.op = op
    /\ Arg1 < Len(Fn.constants)
    /\ Fn.constants[Arg1 + 1].tag = "String"

\* the globals of a fresh VM are exactly the registered natives
FreshGlobals ==
    /\ DOMAIN globals = {S_clock}
    /\ globals[S_clock] = NativeFnV(0)

\* DefineGlobal binds the name to the popped value, replacing a binding it finds
DefineGlobalBinds ==
    (GlobalStep("DefineGlobal") /\ Len(stack) >= 1) =>
        /\ DOMAIN globals' = DOMAIN globals \cup {GlobalName}
        /\ globals'[GlobalName] = Peek(0)
        /\ \A k \in DOMAIN globals \ {GlobalName} : globals'[k] = globals[k]
        /\ stack' = SubSeq(stack, 1, Len(stack) - 1)

\* only DefineGlobal and SetGlobal change the globals
OnlyBindingsChangeGlobals ==
    globals' # globals => last_op'.op \in {"DefineGlobal", "SetGlobal"} /\ last_op'.outcome = "ok"

\* GetGlobal pushes the binding of the name, or fails where there is none
GetGlobalReads ==
    GlobalStep("GetGlobal") =>
        IF GlobalName \in DOMAIN globals
        THEN stack' = Append(stack, globals[GlobalName]) /\ pc' = "run"
        ELSE UndefinedVariable(GlobalName) /\ stack' = stack

\* C14: GetGlobal k pushes the value most recently bound to the name constants[k] by
\* DefineGlobal or SetGlobal (DefineGlobal on a bound name, a native such as clock
\* included, replaces the binding) and fails with "Undefined variable '<name>'." when
\* the name was never bound; the globals of a fresh VM are exactly the registered natives
GlobalBindings ==
    /\ FreshGlobals
    /\ [][DefineGlobalBinds /\ OnlyBindingsChangeGlobals /\ GetGlobalReads]_vars

\* clock was defined twice over the native and read back as the second value
GlobalBindingsWitness ==
    /\ pc = "run"
    /\ last_op.op = "GetGlobal" /\ last_op.outcome = "ok"
    /\ last_op.lhs = StringV(S_clock)
    /\ Peek(0) = NumberV(2, 1)
    /\ globals[S_clock] = NumberV(2, 1)

\* the script frame of a parsed source unit is running
RunningScript ==
    /\ pc = "run"
    /\ Len(frames) = 1
    /\ input.kind = "source"
    /\ parse(input.source).ok

\* the statements of the source unit
ScriptBody == parse(input.source).body

\* the compiler after the first k of the statements ss, compiled from the state c
CompiledUpTo(c, ss, k) == compile_stmts(c, SubSeq(ss, 1, k))

\* the stack height of the script frame when the k-th of the statements ss is entered:
\* the script closure and one slot for each local declared before it
HeightBefore(c, ss, k) == Len(CompiledUpTo(c, ss, k - 1).locals)

\* the index after the last code byte of the k-th of the statements ss
EndOf(c, ss, k) == Len(CompiledUpTo(c, ss, k).function.chunk)

\* where the ip stands at the end of one of the statements ss, the stack is as high as
\* when the statement was entered; where it stands before the Pop or Print that ends an
\* expression statement or a print statement, it is one higher
StackNeutral(c, ss) ==
    \A k \in 1..Len(ss) :
        /\ (ss[k].kind \in {"Expr", "Print", "If", "While", "Block"} /\ Ip = EndOf(c, ss, k))
               => Len(stack) = HeightBefore(c, ss, k)
        /\ (ss[k].kind \in {"Expr", "Print"} /\ Ip = EndOf(c, ss, k) - 1)
               => Len(stack) = HeightBefore(c, ss, k) + 1

\* C15: executing the bytecode of an expression leaves the operand stack exactly one
\* slot higher, and executing the bytecode of an expression statement, a print
\* statement, an if, a while or a block leaves its height unchanged (stated for the
\* statements of the script and for the statements of its blocks)
StackEffects ==
    RunningScript =>
        /\ StackNeutral(CompilerNew("Script", <<>>), ScriptBody)
        /\ \A k \in 1..Len(ScriptBody) :
               ScriptBody[k].kind = "Block" =>
                   StackNeutral(begin_scope(CompiledUpTo(CompilerNew("Script", <<>>),
                                                         ScriptBody, k - 1)),
                                ScriptBody[k].stmts)

\* the k-th statement of the script prints `a and b` or `a or b`
PrintsLogic(k) ==
    /\ ScriptBody[k].kind = "Print"
    /\ ScriptBody[k].expr.kind = "Binary"
    /\ ScriptBody[k].expr.op \in {"And", "Or"}

\* the index of the jump the compiler emits after the code of a
AfterLhs(k) ==
    Len(compile_expr(CompiledUpTo(CompilerNew("Script", <<>>), ScriptBody, k - 1),
                     ScriptBody[k].expr.lhs).function.chunk)

\* the index of the Print that follows the code of the whole expression
AfterLogic(k) == EndOf(CompilerNew("Script", <<>>), ScriptBody, k) - 1

\* Nil and Bool(false)
Falsey(v) == v.tag = "Nil" \/ (v.tag = "Bool" /\ ~v.b)

\* a decides the expression: `and` with a falsey a, `or` with a truthy a
ShortCircuits(op, a) == IF op = "And" THEN Falsey(a) ELSE ~Falsey(a)

\* with the value of a on top: where a decides, the next instruction is the one after
\* the whole expression and the value of a stays as its value, so no byte of b is
\* executed; otherwise the code of b is entered
LogicJump(k) ==
    (Ip = AfterLhs(k) /\ Len(stack) >= 2 /\ pc' = "run") =>
        /\ stack' = stack
        /\ frames'[1].ip = IF ShortCircuits(ScriptBody[k].expr.op, Peek(0))
                           THEN AfterLogic(k)
                           ELSE Ip + 3

\* at the end of the expression exactly one value was added; it is the value of a
\* where the jump was taken, and that of b otherwise (stated for a literal number b)
LogicValue(k) ==
    Ip = AfterLogic(k) =>
        /\ Len(stack) = 2
        /\ last_op.op \in {"JumpIfFalsePeek", "JumpIfTruePeek"}
               => Peek(0) = last_op.lhs /\ ShortCircuits(ScriptBody[k].expr.op, Peek(0))
        /\ (last_op.op \notin {"JumpIfFalsePeek", "JumpIfTruePeek"}
            /\ ScriptBody[k].expr.rhs.kind = "Number")
               => Peek(0) = NumberV(ScriptBody[k].expr.rhs.value, 1)

\* the value of every printed `a and b` and `a or b` of the running script
LogicValues == RunningScript => \A k \in 1..Len(ScriptBody) : PrintsLogic(k) => LogicValue(k)

\* C16: `a and b` evaluates to the value of a when a is falsey and otherwise to the
\* value of b, `a or b` to the value of a when a is truthy and otherwise to the value
\* of b; in the short-circuit case none of b's bytecode is executed, and in both cases
\* exactly one value is left on the stack
ShortCircuit ==
    /\ []LogicValues
    /\ [][RunningScript => \A k \in 1..Len(ScriptBody) : PrintsLogic(k) => LogicJump(k)]_vars

\* the five logical expressions were printed: nil, 2, 3, 4, and nil without the
\* assignment to the undefined a being executed
ShortCircuitWitness ==
    /\ pc = "exited"
    /\ error.kind = "None"
    /\ input = SourceFile(SourceOf(P_logic))
    /\ stdout = <<TextLine(S_nil), NumberLine(NumberV(2, 1)), NumberLine(NumberV(3, 1)),
                  NumberLine(NumberV(4, 1)), TextLine(S_nil)>>

\* the step of an instruction that tests the truthiness of the top of the stack
TruthStep(op) ==
    /\ Decodes(op)
    /\ last_op'.op = op
    /\ Len(stack) >= 1
    /\ pc' = "run"

\* the ip of the running frame after the step
NextIp == frames'[Len(frames)].ip

\* C17: the truthiness used by Not, JumpIfFalsePop, JumpIfFalsePeek and JumpIfTruePeek
\* treats exactly Nil and Bool(false) as falsey; every other value, the number 0, the
\* empty string, closures and natives included, is truthy
Truthiness ==
    [][/\ TruthStep("Not") => stack' = Append(Popped(1), BoolV(Falsey(Peek(0))))
       /\ TruthStep("JumpIfFalsePop") =>
             NextIp = Ip + 3 + (IF Falsey(Peek(0)) THEN Arg16 ELSE 0)
       /\ TruthStep("JumpIfFalsePeek") =>
             NextIp = Ip + 3 + (IF Falsey(Peek(0)) THEN Arg16 ELSE 0)
       /\ TruthStep("JumpIfTruePeek") =>
             NextIp = Ip + 3 + (IF Falsey(Peek(0)) THEN 0 ELSE Arg16)]_vars

\* the script that negates and tests 0, "", a native and a closure has printed false
\* for each negation, run both if bodies, skipped the while body, and left `and` and
\* `or` to the truthy operands
TruthinessWitness ==
    /\ pc = "exited"
    /\ error.kind = "None"
    /\ input = SourceFile(SourceOf(P_truthy))
    /\ stdout = <<TextLine(S_false), TextLine(S_false), TextLine(S_false), TextLine(S_false),
                  TextLine(S_true), TextLine(S_true), TextLine(S_false),
                  NumberLine(NumberV(1, 1)), NumberLine(NumberV(2, 1)),
                  NumberLine(NumberV(4, 1)), NumberLine(NumberV(5, 1)),
                  TextLine(S_native_fn), TextLine(S_f),
                  NumberLine(NumberV(8, 1)), TextLine(S_false)>>

\* the line table of a chunk has one entry for each code byte
LineParity(f) == Len(f.lines) = Len(f.chunk)

\* the chunk a compiler is writing and the nested functions it has finished
AllLineParity(c) ==
    /\ LineParity(c.function)
    /\ \A i \in DOMAIN c.heap : LineParity(c.heap[i])

\* from the compiler state c, each way of emitting keeps the parity: an instruction,
\* an instruction with its operand, a constant, a jump placeholder, its patch, and a
\* loop with its operand
EmittingKeepsParity(c) ==
    /\ AllLineParity(emit(c, 1, "Nil"))
    /\ AllLineParity(emit_with_arg(c, 1, "GetLocal", 0))
    /\ AllLineParity(emit_constant(c, 1, "Constant", NilV))
    /\ AllLineParity(emit_jump(c, 1, "Jump"))
    /\ AllLineParity(patch_jump(emit(emit_jump(c, 1, "Jump"), 1, "Nil"), 1,
                                Len(c.function.chunk) + 1))
    /\ AllLineParity(emit_loop(c, 1, 0))
    /\ AllLineParity(finalize(c, 1))

\* C18: at every point of the compilation and in every finished chunk, top-level and
\* nested, the lines sequence has as many entries as the code byte sequence; emitting
\* an instruction, an operand, a jump placeholder, a loop operand and patching a jump
\* preserve this (the points of the compilation stated are those between the
\* statements of the script)
LineMapParity ==
    /\ (pc = "compile" /\ input.kind = "source" /\ parse(input.source).ok) =>
           \A k \in 0..Len(ScriptBody) :
               /\ AllLineParity(CompiledUpTo(CompilerNew("Script", functions), ScriptBody, k))
               /\ EmittingKeepsParity(CompiledUpTo(CompilerNew("Script", functions),
                                                   ScriptBody, k))
    /\ (pc \in {"interpret", "run", "write"} /\ input.kind \in {"source", "empty"}) =>
           /\ LineParity(bytecode)
           /\ \A i \in DOMAIN functions : LineParity(functions[i])

\* the chunk of the script with the while loop is finished: it holds a patched jump and
\* a Loop, and a line for each of its bytes
LineMapParityWitness ==
    /\ pc = "interpret"
    /\ input = SourceFile(SourceOf(P_while))
    /\ \E i \in DOMAIN bytecode.chunk : bytecode.chunk[i] = Op("Loop")
    /\ \E i \in DOMAIN bytecode.chunk : bytecode.chunk[i] = Op("JumpIfFalsePop")
    /\ bytecode.lines # <<>>
    /\ Len(bytecode.lines) = Len(bytecode.chunk)

\* the indices of the code at which the instructions after ip begin, as the VM reads
\* them one after the other
RECURSIVE InstrStarts(_, _)
InstrStarts(code, ip) ==
    IF ip >= Len(code) \/ ~IsOpCode(code[ip + 1]) THEN {}
    ELSE {ip} \cup InstrStarts(code, ip + 1 + OperandBytes(OpName(code[ip + 1])))

\* the opcode at an instruction start and the byte operand after it
OpAt(f, ip) == OpName(f.chunk[ip + 1])
OperandAt(f, ip) == f.chunk[ip + 2]

\* every operand of the chunk that indexes the constant pool is within the pool and
\* finds a constant of the kind the VM expects
ConstantOperandsValid(f) ==
    \A ip \in InstrStarts(f.chunk, 0) :
        /\ OpAt(f, ip) \in {"Constant", "GetGlobal", "SetGlobal", "DefineGlobal", "Closure"}
               => ip + 2 <= Len(f.chunk) /\ OperandAt(f, ip) < Len(f.constants)
        /\ OpAt(f, ip) \in {"GetGlobal", "SetGlobal", "DefineGlobal"}
               => f.constants[OperandAt(f, ip) + 1].tag = "String"
        /\ OpAt(f, ip) = "Closure" => f.constants[OperandAt(f, ip) + 1].tag = "Function"

\* the compiler has finished the chunks of a source unit
Compiled_ == pc = "interpret" /\ input.kind \in {"source", "empty"}

\* C19: in every chunk the compiler produces, the operand byte of each Constant,
\* GetGlobal, SetGlobal, DefineGlobal and Closure instruction is a valid index into the
\* constant pool of that chunk, and the constant is of the kind the VM expects: a
\* String for the global instructions, a Function for Closure
ConstantPoolBounds ==
    Compiled_ =>
        /\ ConstantOperandsValid(bytecode)
        /\ \A i \in DOMAIN functions : ConstantOperandsValid(functions[i])

\* the script that declares a function and a global is compiled: its chunk holds a
\* Closure over a Function constant and a DefineGlobal over a String constant, and the
\* nested function is on the heap
ConstantPoolBoundsWitness ==
    /\ Compiled_
    /\ input = SourceFile(SourceOf(P_fresh_closures))
    /\ Len(functions) >= 2
    /\ \E ip \in InstrStarts(bytecode.chunk, 0) :
           /\ OpAt(bytecode, ip) = "Closure"
           /\ bytecode.constants[OperandAt(bytecode, ip) + 1].tag = "Function"
    /\ \E ip \in InstrStarts(bytecode.chunk, 0) :
           /\ OpAt(bytecode, ip) = "DefineGlobal"
           /\ bytecode.constants[OperandAt(bytecode, ip) + 1].tag = "String"

\* the u16 operand of the jump at an instruction start, and where the VM goes on when
\* it takes the jump: the offset counts from the byte after the operand
OffsetAt(f, ip) == U16FromLe(f.chunk[ip + 2], f.chunk[ip + 3])
TargetAt(f, ip) ==
    IF OpAt(f, ip) = "Loop" THEN ip + 3 - OffsetAt(f, ip) ELSE ip + 3 + OffsetAt(f, ip)

\* every jump of the chunk lands within [0, |code|] on the first byte of an instruction
\* (or on the end of the code)
JumpsLand(f) ==
    \A ip \in InstrStarts(f.chunk, 0) :
        OpAt(f, ip) \in {"Jump", "JumpIfFalsePop", "JumpIfFalsePeek", "JumpIfTruePeek", "Loop"}
            => /\ ip + 3 <= Len(f.chunk)
               /\ TargetAt(f, ip) \in InstrStarts(f.chunk, 0) \cup {Len(f.chunk)}

\* each while among the statements ss, compiled from the state c, ends in a Loop whose
\* target is the code length the compiler recorded before the condition
LoopsToStart(f, c, ss) ==
    \A k \in 1..Len(ss) :
        ss[k].kind = "While" =>
            /\ OpAt(f, EndOf(c, ss, k) - 3) = "Loop"
            /\ TargetAt(f, EndOf(c, ss, k) - 3) = EndOf(c, ss, k - 1)

\* the Loop of each while among the statements ss takes the ip of the VM to that index
LoopStepsToStart(c, ss) ==
    \A k \in 1..Len(ss) :
        (ss[k].kind = "While" /\ Ip = EndOf(c, ss, k) - 3 /\ pc' = "run")
            => NextIp = EndOf(c, ss, k - 1)

\* the compiler state in which the statements of the k-th statement of the script, a
\* block, are compiled
InBlock(k) == begin_scope(CompiledUpTo(CompilerNew("Script", <<>>), ScriptBody, k - 1))

\* the jumps of the finished chunks of a source unit
JumpsOfCompiled ==
    Compiled_ =>
        /\ JumpsLand(bytecode)
        /\ \A i \in DOMAIN functions : JumpsLand(functions[i])
        /\ input.kind = "source" =>
               /\ LoopsToStart(bytecode, CompilerNew("Script", <<>>), ScriptBody)
               /\ \A k \in 1..Len(ScriptBody) :
                      ScriptBody[k].kind = "Block" =>
                          LoopsToStart(bytecode, InBlock(k), ScriptBody[k].stmts)

\* C20: in every chunk the compiler produces, each forward jump (Jump, JumpIfFalsePop,
\* JumpIfFalsePeek, JumpIfTruePeek) after patching targets an index in [0, |code|] that
\* is the first byte of an instruction, and the offset of each Loop makes the ip of the
\* VM equal to the loop_start the compiler recorded before the while condition
JumpSafety ==
    /\ []JumpsOfCompiled
    /\ [][RunningScript =>
             /\ LoopStepsToStart(CompilerNew("Script", <<>>), ScriptBody)
             /\ \A k \in 1..Len(ScriptBody) :
                    ScriptBody[k].kind = "Block" =>
                        LoopStepsToStart(InBlock(k), ScriptBody[k].stmts)]_vars

\* the Loop of the while statement has taken the VM back to the condition, which
\* follows the definition of the counter
JumpSafetyWitness ==
    /\ RunningScript
    /\ input = SourceFile(SourceOf(P_while))
    /\ last_op.op = "Loop" /\ last_op.outcome = "ok"
    /\ Ip = EndOf(CompilerNew("Script", <<>>), ScriptBody, 1)
    /\ Len(stdout) = 1

\* the source unit being compiled is one the parser accepted
CompilingSource == pc = "compile" /\ input.kind = "source" /\ parse(input.source).ok

\* names of variables
VarNames == {S_a, S_b, S_x, S_f, S_clock}

\* compiler states inside a local scope: a block opened between two statements of
\* the script, the positions between the statements of the blocks of the script, and
\* the start of a function body without and with a parameter
BlockContexts ==
    UNION {IF ScriptBody[k].kind = "Block"
           THEN {CompiledUpTo(InBlock(k), ScriptBody[k].stmts, j) :
                    j \in 0..Len(ScriptBody[k].stmts)}
           ELSE {} : k \in 1..Len(ScriptBody)}
LocalContexts ==
    {begin_scope(CompiledUpTo(CompilerNew("Script", <<>>), ScriptBody, k)) :
        k \in 0..Len(ScriptBody)}
    \cup BlockContexts
    \cup {begin_scope(c) : c \in BlockContexts}
    \cup {CompilerNew("Function", <<>>),
          declare_params(CompilerNew("Function", <<>>), <<<<1, S_x>>>>)}

OwnInitializerError(line) ==
    CompileError("Can't read local variable in its own initializer.", line)

\* from the compiler state c, where the name may be declared: a var statement that
\* reads or assigns the name in its initializer is the error at the line of that use,
\* and after a var statement with another initializer the name resolves to the new
\* local, the last slot
OwnInitializerRejected(c, name) ==
    ~Failed(declare_variable(c, 1, name, FALSE)) =>
        /\ compile_stmt(c, SVar(name, 2, TRUE, EVariable(name, 3), 4)).err
               = OwnInitializerError(3)
        /\ compile_stmt(c, SVar(name, 2, TRUE, EAssign(name, 3, ENumber(1, 4)), 4)).err
               = OwnInitializerError(3)
        /\ ~Failed(compile_stmt(c, Var1(name, N(1))))
        /\ resolve_local(compile_stmt(c, Var1(name, N(1))), 1, name)
               = [err |-> NoError, found |-> TRUE, slot |-> Len(c.locals)]

\* C21: inside a local scope, a variable named in its own initializer, read or
\* assigned, is rejected with the compile error "Can't read local variable in its own
\* initializer.", also when an outer local or a global of the same name exists; once
\* the var statement completes the local is readable (stated where the declaration
\* itself is accepted)
OwnInitializer ==
    /\ CompilingSource =>
           \A c \in LocalContexts : \A name \in VarNames :
               (~Failed(c) /\ c.scope_depth > 0) => OwnInitializerRejected(c, name)
    /\ (pc = "exited" /\ input = SourceFile(SourceOf(P_own_init)))
           => error = OwnInitializerError(1) /\ (args.has_script => stdout = <<>>)
    /\ (pc = "exited" /\ input = SourceFile(SourceOf(P_own_init_outer)))
           => error = OwnInitializerError(3) /\ (args.has_script => stdout = <<>>)
    /\ (pc = "exited" /\ input = SourceFile(SourceOf(P_local)) /\ args.has_script
           /\ ~args.compile)
           => error = NoError /\ stdout = <<NumberLine(NumberV(2, 1))>>

\* the unit whose innermost block declares x with an assignment to x as initializer,
\* under a local x and a global x, has been rejected at the line of the assignment
OwnInitializerWitness ==
    /\ pc = "exited"
    /\ input = SourceFile(SourceOf(P_own_init_outer))
    /\ error = OwnInitializerError(3)
    /\ exit_code = 65

RedeclarationError(line) ==
    CompileError("Already variable with this name in this scope.", line)

\* a local of the scope the compiler is in has the name
InSameScope(c, name) ==
    \E i \in DOMAIN c.locals :
        /\ c.locals[i].name = name
        /\ c.locals[i].has_depth
        /\ c.locals[i].depth = c.scope_depth

\* from the compiler state c inside a local scope: a var, a fun or a parameter of a
\* name of the same scope is the error at the line of the name, any other name is
\* accepted, and so is the same name one scope further in
SameScopeRejected(c, name) ==
    /\ InSameScope(c, name) =>
           /\ declare_variable(c, 2, name, FALSE).err = RedeclarationError(2)
           /\ declare_variable(c, 2, name, TRUE).err = RedeclarationError(2)
           /\ compile_stmt(c, SVar(name, 2, TRUE, ENumber(1, 3), 3)).err
                  = RedeclarationError(2)
           /\ compile_stmt(c, SFun(name, 2, <<>>, <<>>, 3)).err = RedeclarationError(2)
    /\ ~InSameScope(c, name) =>
           /\ ~Failed(declare_variable(c, 2, name, FALSE))
           /\ ~Failed(declare_variable(c, 2, name, TRUE))
           /\ declare_variable(declare_variable(c, 2, name, TRUE), 3, name, TRUE).err
                  = RedeclarationError(3)
    /\ ~Failed(declare_variable(begin_scope(c), 2, name, FALSE))
    /\ ~Failed(compile_stmt(c, SBlock(<<Var1(name, N(1))>>, 1)))

\* from the compiler state c: a second parameter of a name, and a var in the body of
\* the name of a parameter, are the error
ParameterRejected(c, name) ==
    /\ compile_stmt(c, SFun(S_g, 1, <<<<2, name>>, <<3, name>>>>, <<>>, 4)).err
           = RedeclarationError(3)
    /\ compile_stmt(c, SFun(S_g, 1, <<<<2, name>>>>,
                            <<SVar(name, 3, FALSE, ENil(0), 3)>>, 4)).err
           = RedeclarationError(3)
    /\ ~Failed(compile_stmt(c, SFun(S_g, 1, <<<<2, name>>>>,
                                    <<SBlock(<<SVar(name, 3, FALSE, ENil(0), 3)>>, 3)>>,
                                    4)))

\* C22: declaring a local (var, fun or parameter) whose name equals another local
\* declared in the same scope is the compile error "Already variable with this name in
\* this scope."; declaring the same name in a strictly inner scope is accepted, and at
\* global scope (depth 0) redeclaration is never rejected
Redeclaration ==
    /\ CompilingSource =>
           /\ \A c \in LocalContexts : \A name \in VarNames :
                  (~Failed(c) /\ c.scope_depth > 0) => SameScopeRejected(c, name)
           /\ \A k \in 0..Len(ScriptBody) : \A name \in VarNames :
                  LET c == CompiledUpTo(CompilerNew("Script", <<>>), ScriptBody, k)
                  IN  ~Failed(c) =>
                          /\ ~Failed(declare_variable(c, 2, name, FALSE))
                          /\ ~Failed(compile_stmts(c, <<Var1(name, N(1)), Var1(name, N(2)),
                                                        Fun1(name, <<>>, <<>>)>>))
                          /\ ParameterRejected(c, name)
    /\ (pc = "exited" /\ input = SourceFile(SourceOf(P_redeclare)))
           => error = RedeclarationError(3)
    /\ (pc = "exited" /\ input = SourceFile(SourceOf(P_shadow)) /\ ~args.compile)
           => error = NoError
    /\ (pc = "exited" /\ input = SourceFile(SourceOf(P_redefine)) /\ ~args.compile)
           => error = NoError

\* the block that declares a twice has been rejected at the line of the second
\* declaration
RedeclarationWitness ==
    /\ pc = "exited"
    /\ input = SourceFile(SourceOf(P_redeclare))
    /\ error = RedeclarationError(3)
    /\ exit_code = 65

\* every compiler state between the statements of the script, and inside a local scope
AllContexts ==
    {CompiledUpTo(CompilerNew("Script", <<>>), ScriptBody, k) : k \in 0..Len(ScriptBody)}
    \cup LocalContexts

\* blocks that declare the name: alone, with a second variable and a function, and
\* once more in a block of their own; the empty block; and the blocks of the script
ShadowingBlocks(name) ==
    {SBlock(<<Var1(name, N(2)), Print1(V(name))>>, 2),
     SBlock(<<Var1(name, N(2)), Var1(S_hi, V(name)), Fun1(S_g, <<name>>, <<>>)>>, 2),
     SBlock(<<Var1(name, N(2)), SBlock(<<Var1(name, N(3)), Print1(V(name))>>, 2),
              Print1(V(name))>>, 2),
     SBlock(<<>>, 2)}
    \cup {ScriptBody[k] : k \in {j \in 1..Len(ScriptBody) : ScriptBody[j].kind = "Block"}}

\* the compiler state at the end of the statements of the block, before end_scope
InsideBlock(c, block) == compile_stmts(begin_scope(c), block.stmts)

\* n times Pop
Pops(n) == [i \in 1..n |-> Op("Pop")]

\* the block compiled from the state c: the code ends in one Pop for each local its
\* scope declared, each on the last line of the block, and the locals, the depth and
\* the resolution of the name are those of c; inside, a block that declares the name
\* first resolves it to the first slot after the locals of c
ScopeRestored(c, block, name) ==
    LET inside == InsideBlock(c, block)
        after == compile_stmt(c, block)
        declared == Len(inside.locals) - Len(c.locals)
    IN  ~Failed(after) =>
            /\ declared >= 0
            /\ after.function.chunk = inside.function.chunk \o Pops(declared)
            /\ after.function.lines
                   = inside.function.lines \o [i \in 1..declared |-> block.last_line]
            /\ after.locals = c.locals
            /\ after.scope_depth = c.scope_depth
            /\ resolve_local(after, 1, name) = resolve_local(c, 1, name)
            /\ \A i \in 1..declared :
                   /\ inside.locals[Len(c.locals) + i].has_depth
                   /\ inside.locals[Len(c.locals) + i].depth = c.scope_depth + 1
            /\ (block.stmts # <<>> /\ block.stmts[1] = Var1(name, N(2))) =>
                   /\ declared >= 1
                   /\ inside.locals[Len(c.locals) + 1].name = name
                   /\ resolve_local(compile_stmt(begin_scope(c), block.stmts[1]), 1, name).slot
                          = Len(c.locals)

\* C23: a variable declared in a block shadows a same-named variable of an enclosing
\* scope only inside the block: end_scope emits exactly one Pop per local declared in
\* the ended scope and removes exactly those locals, so after the block the locals
\* and the scope_depth of the compiler equal their values before the block and the
\* outer variable is read with its unchanged value (`var x = 1; { var x = 2; print x;
\* } print x;` prints 2 then 1)
BlockShadowing ==
    /\ CompilingSource =>
           \A c \in AllContexts : \A name \in VarNames :
               \A block \in ShadowingBlocks(name) :
                   ~Failed(c) => ScopeRestored(c, block, name)
    /\ (pc = "exited" /\ input = SourceFile(SourceOf(P_shadow)) /\ args.has_script
           /\ ~args.compile)
           => /\ error = NoError
              /\ stdout = <<NumberLine(NumberV(2, 1)), NumberLine(NumberV(1, 1))>>

\* the shadowing program has run to its end and printed 2 then 1
BlockShadowingWitness ==
    /\ pc = "exited"
    /\ input = SourceFile(SourceOf(P_shadow))
    /\ error = NoError
    /\ stdout = <<NumberLine(NumberV(2, 1)), NumberLine(NumberV(1, 1))>>

TooManyConstants(line) == CompileError("Too many constants in one chunk.", line)

\* the chunk written is the one of the program with 256 number constants
FullPool == pc = "ser_write" /\ Len(ser_in.f.constants) = U8Max + 1

\* while the program with 256 constants is compiled, after n of its statements the pool
\* holds n constants, and adding one more returns the index n; adding one to the 256
\* is the error
PoolFills ==
    \A n \in 0..(U8Max + 1) :
        LET c == CompiledUpTo(CompilerNew("Script", <<>>), P_many, n)
            c1 == make_constant(c, 7, NilV)
        IN  /\ ~Failed(c)
            /\ Len(c.function.constants) = n
            /\ n <= U8Max => ~Failed(c1) /\ c1.ret = n /\ Len(c1.function.constants) = n + 1
            /\ n = U8Max + 1 => c1.err = TooManyConstants(7)

\* the programs with a 257th constant: a number, a global's name in a declaration, in
\* a read and in an assignment
PoolOverflows ==
    /\ compile(P_many \o <<SPrint(ENumber(256, 2), 2)>>, <<>>).err = TooManyConstants(2)
    /\ compile(P_many \o <<SVar(S_a, 2, FALSE, ENil(0), 2)>>, <<>>).err = TooManyConstants(2)
    /\ compile(P_many \o <<SPrint(EVariable(S_a, 2), 2)>>, <<>>).err = TooManyConstants(2)
    /\ compile(P_many \o <<SExpr(EAssign(S_a, 2, ENil(2)), 2)>>, <<>>).err
           = TooManyConstants(2)
    /\ ~Failed(compile(P_many \o <<SPrint(ENil(2), 2)>>, <<>>))

\* C24: the constant pool of a function may hold up to 256 constants: adding the 1st
\* through 256th constant succeeds and returns the indices 0..255, and any attempt to
\* add a 257th is the compile error "Too many constants in one chunk."; no compiled
\* chunk returned by the compiler has more than 256 constants
ConstantLimit ==
    /\ pc = "ser_write" =>
           /\ Len(ser_in.f.constants) <= U8Max + 1
           /\ \A i \in DOMAIN ser_in.heap : Len(ser_in.heap[i].constants) <= U8Max + 1
    /\ FullPool => PoolFills /\ PoolOverflows

\* the chunk of the program with 256 constants has been compiled
ConstantLimitWitness ==
    /\ FullPool
    /\ ser_in.f.constants[U8Max + 1] = NumberV(U8Max, 1)

\* how many of the first n bytes are newlines
Newlines(bytes, n) == Cardinality({i \in 1..n : bytes[i] = 10})

\* C25: every token the lexer emits is tagged with the line on which it began and the
\* line on which it ended, where the line is 1 plus the number of newline bytes
\* consumed before that point; newlines in whitespace, at the end of a // comment and
\* inside string literals each increment the line exactly once, and a newline held in
\* the one-byte pushback is not counted twice
TokenLines ==
    /\ lexer.line = 1 + Newlines(lexer.stream, Consumed(lexer))
    /\ item.tag = "Ok" =>
           /\ item.start = 1 + Newlines(lexer.stream, item.first - 1)
           /\ item.end = 1 + Newlines(lexer.stream, Consumed(lexer))
           /\ item.token.line = item.start
           /\ item.token.kind = "STRING" => item.token.end_line = item.end

\* after a string over two lines and an identifier, the string that begins on line 3
\* and holds two newlines has been returned with the lines 3 and 5
TokenLinesWitness ==
    /\ lexer.stream = <<34, 97, 10, 98, 34, 32, 99, 10, 34, 10, 10, 34>>
    /\ item.tag = "Ok"
    /\ item.token.kind = "STRING"
    /\ item.start = 3
    /\ item.end = 5
    /\ item.first = 9

\* C26: a lexer error carries the line number at which it occurred together with the
\* exact diagnostic text: a string literal not closed before the end of the input
\* yields "Unterminated string." and a byte that starts no token yields "Unexpected
\* character."
LexerErrorLines ==
    (item.tag = "Err" /\ item.err.kind = "Compile") =>
        /\ item.err.has_line
        /\ item.err.line = lexer.line
        /\ item.err.msg = IF lexer.stream[item.first] = 34 THEN "Unterminated string."
                          ELSE "Unexpected character."

\* the index of the last byte of the run of letters, digits and underscores that
\* begins at the index i
RunEnd(bytes, i) ==
    CHOOSE j \in i..Len(bytes) :
        /\ \A k \in i..j : IsAlpha(bytes[k]) \/ IsDigit(bytes[k])
        /\ j = Len(bytes) \/ ~(IsAlpha(bytes[j + 1]) \/ IsDigit(bytes[j + 1]))

\* and class else false for fun if nil or print return super this true var while
KeywordTexts == {Keywords[i][1] : i \in DOMAIN Keywords}

\* C27: the lexer reads an identifier as the maximal run of bytes matching
\* [A-Za-z_][A-Za-z0-9_]* and emits a keyword token only when the whole run equals one
\* of the 16 keywords; a run that merely starts with a keyword (orchid, fun1) is a
\* single IDENTIFIER token
Identifiers ==
    /\ Cardinality(KeywordTexts) = 16
    /\ item.tag = "Ok" =>
           IF IsAlpha(lexer.stream[item.first])
           THEN /\ Consumed(lexer) = RunEnd(lexer.stream, item.first)
                /\ TokenText(item.token) = SubSeq(lexer.stream, item.first, Consumed(lexer))
                /\ item.token.kind = "IDENTIFIER" <=> TokenText(item.token) \notin KeywordTexts
           ELSE /\ item.token.kind # "IDENTIFIER"
                /\ \A i \in DOMAIN Keywords : item.token.kind # Keywords[i][2]

\* orchid has been returned as one IDENTIFIER
IdentifiersWitness ==
    /\ lexer.stream = <<111, 114, 99, 104, 105, 100>>
    /\ item.tag = "Ok"
    /\ item.token.kind = "IDENTIFIER"
    /\ item.token.text = lexer.stream
    /\ Consumed(lexer) = 6

\* the bytes handed out and not put back are the bytes of the input up to the last
\* one consumed, in their order; the pushback holds the byte read last
NothingLost ==
    /\ lexer.taken = SubSeq(lexer.stream, 1, Consumed(lexer))
    /\ lexer.peek_some =>
           lexer.open /\ lexer.pos >= 1 /\ lexer.peek = lexer.stream[lexer.pos]
    /\ ~lexer.open => ~lexer.peek_some /\ lexer.pos = Len(lexer.stream)

\* the byte in the pushback begins what comes next, unless it is whitespace or
\* begins a comment
BeginsNext ==
    /\ lexer.peek_some
    /\ lexer.peek \notin {32, 13, 9, 10}
    /\ ~(/\ lexer.peek = 47
         /\ lexer.pos < Len(lexer.stream)
         /\ lexer.stream[lexer.pos + 1] = 47)

\* C28: with a single byte of pushback no input byte is lost or read twice: the byte
\* that terminates an identifier, a number, a one-character operator (!, =, <, >) or
\* a / that is not a comment is examined again as the first byte of the next token,
\* the pushback slot is consumed before the stream is read again, and after the end of
\* the input every further call yields the end
Pushback ==
    /\ []NothingLost
    /\ [][BeginsNext => /\ item'.tag \in {"Ok", "Err"}
                        /\ item'.first = lexer.pos
                        /\ Consumed(lexer') >= lexer.pos]_vars
    /\ [][item.tag = "None" => item'.tag = "None"]_vars

\* in a<=b<c the c that ended the < is in the pushback, after the < that ended the b
\* was returned as the token that begins at the fifth byte
PushbackWitness ==
    /\ lexer.stream = <<97, 60, 61, 98, 60, 99>>
    /\ item.tag = "Ok"
    /\ item.token.kind = "LESS"
    /\ item.first = 5
    /\ lexer.peek_some
    /\ lexer.peek = 99
    /\ lexer.pos = 6


\* a source unit has ended in a runtime error
RuntimeErrorExit == pc = "exited" /\ error.kind = "Runtime" /\ input.kind = "source"

\* the trace of the error has one line for each frame of the snapshot, the deepest
\* first: the deepest frame stands behind the instruction that failed and is written
\* with the line of its opcode; every other frame stands behind a Call and is written
\* with the line of that Call; the frame of the script is written as "script", the
\* frame of a function as its name and "()"
TraceOfSnapshot ==
    LET cs == error.call_stack
        t == RenderTrace(error, functions)
    IN  /\ Len(t) = Len(cs)
        /\ \A i \in 1..Len(t) :
               LET frame == cs[Len(cs) + 1 - i]
                   f == functions[frame.closure.fn]
                   at == IF i = 1 THEN frame.ip - OperandBytes(last_op.op) ELSE frame.ip - 1
               IN  /\ at >= 1
                   /\ f.chunk[at] = (IF i = 1 THEN Op(last_op.op) ELSE Op("Call"))
                   /\ t[i].line = f.lines[at]
                   /\ t[i].in = IF i = Len(t) THEN <<115, 99, 114, 105, 112, 116>>
                                ELSE f.name \o <<40, 41>>
                   /\ i < Len(t) => f.has_name

\* the trace of the program that fails two calls deep
TraceOfCalls ==
    <<[line |-> 2, in |-> S_f \o <<40, 41>>], [line |-> 4, in |-> S_g \o <<40, 41>>],
      [line |-> 6, in |-> <<115, 99, 114, 105, 112, 116>>]>>

\* C29: a runtime error carries a snapshot of the frame stack exactly as it was when
\* the faulting instruction ran, and the rendered trace has one line per frame,
\* deepest frame first, of the form "[line L] in <name>()" for a named function or
\* "[line L] in script" for the top level, where L is the source line of the faulting
\* instruction in the deepest frame and of the pending Call instruction in every other
\* frame (stated for the runs of source units)
RuntimeTrace ==
    /\ [](RuntimeErrorExit =>
              /\ last_op.outcome = "error"
              /\ TraceOfSnapshot
              /\ input = SourceFile(SourceOf(P_trace))
                     => RenderTrace(error, functions) = TraceOfCalls)
    /\ [][(pc = "run" /\ pc' = "exited" /\ error'.kind = "Runtime") =>
              /\ Len(error'.call_stack) = Len(frames)
              /\ \A i \in 1..Len(frames) :
                     /\ error'.call_stack[i].closure = frames[i].closure
                     /\ error'.call_stack[i].slots_start = frames[i].slots_start
                     /\ error'.call_stack[i].ip
                            = IF i < Len(frames) THEN frames[i].ip
                              ELSE frames[i].ip + 1 + OperandBytes(last_op'.op)]_vars

\* the program that negates a string two calls deep has ended with the three frames in
\* its error
RuntimeTraceWitness ==
    /\ RuntimeErrorExit
    /\ input = SourceFile(SourceOf(P_trace))
    /\ error.msg = "Operand must be a number."
    /\ Len(error.call_stack) = 3
    /\ RenderTrace(error, functions) = TraceOfCalls

\* the instruction at ip is the opcode op with n operands on the stack, and the step
\* executes it
OperandStep(op, n) ==
    /\ Decodes(op)
    /\ IsOpCode(Instr)
    /\ Len(stack) >= n
    /\ last_op'.op = op

\* the step ends the run with the runtime error of the message: nothing is printed, no
\* global changes, and main returns the error (exit code 70) unless rendering its
\* trace panics, which only a bytecode file without lines for its code brings about
TypeErrorEnds(msg) ==
    /\ pc' = "exited"
    /\ last_op'.outcome = "error"
    /\ stdout' = stdout
    /\ globals' = globals
    /\ IF DisplayPanics(RuntimeError(msg, <<>>, frames'))
       THEN input.kind = "bytes" /\ error'.kind = "Panic"
       ELSE error' = RuntimeError(msg, <<>>, frames') /\ exit_code' = 70

\* the step replaces the k topmost values by the result and the run goes on
OperandsReplaced(k, result) ==
    /\ pc' = "run"
    /\ error' = error
    /\ stack' = Append(Popped(k), result)

BothNumbers == Peek(1).tag = "Number" /\ Peek(0).tag = "Number"
BothStrings == Peek(1).tag = "String" /\ Peek(0).tag = "String"

AddChecked ==
    OperandStep("Add", 2) =>
        IF BothNumbers THEN OperandsReplaced(2, NumAdd(Peek(1), Peek(0)))
        ELSE IF BothStrings THEN OperandsReplaced(2, StringV(Peek(1).s \o Peek(0).s))
        ELSE TypeErrorEnds("Operands must be two numbers or two strings.")

NumberOps == {"Sub", "Mul", "Div", "Greater", "GreaterEqual", "Less", "LessEqual"}

NumbersChecked ==
    \A op \in NumberOps :
        OperandStep(op, 2) =>
            IF BothNumbers
            THEN pc' = "run" /\ error' = error /\ Len(stack') = Len(stack) - 1
                 /\ stack'[Len(stack')].tag = (IF op \in {"Sub", "Mul", "Div"} THEN "Number"
                                               ELSE "Bool")
            ELSE TypeErrorEnds("Operands must be numbers.")

NegChecked ==
    OperandStep("Neg", 1) =>
        IF Peek(0).tag = "Number" THEN OperandsReplaced(1, NumNeg(Peek(0)))
        ELSE TypeErrorEnds("Operand must be a number.")

CallChecked ==
    (OperandStep("Call", Arg1 + 1) /\ Peek(Arg1).tag \notin {"Closure", "NativeFn"})
        => TypeErrorEnds("Can only call functions and classes.")

\* C30: Add succeeds only on Number+Number (the sum) or String+String (the
\* concatenation, left then right) and otherwise fails with "Operands must be two
\* numbers or two strings."; Sub, Mul, Div, Greater, GreaterEqual, Less and LessEqual
\* fail with "Operands must be numbers." unless both operands are Number; Neg fails
\* with "Operand must be a number." unless its operand is a Number; Call on a value
\* that is neither Closure nor NativeFn fails with "Can only call functions and
\* classes."; after a runtime error no further step is taken
OperandChecks ==
    /\ [][AddChecked /\ NumbersChecked /\ NegChecked /\ CallChecked]_vars
    /\ [][~(pc = "exited" /\ error.kind = "Runtime")]_vars
    /\ [](input = SourceFile(SourceOf(P_operand_types[27])) /\ pc = "exited" /\ ~args.compile
              => error = NoError /\ stdout = <<TextLine(S_hi \o S_a)>>)

\* the comparison of a string with a number has ended the run: the string was the
\* left operand, nothing was printed
OperandChecksWitness ==
    /\ pc = "exited"
    /\ input = SourceFile(SourceOf(P_operand_types[18]))
    /\ last_op.op = "LessEqual"
    /\ last_op.outcome = "error"
    /\ last_op.lhs = StringV(S_hi)
    /\ last_op.rhs.tag = "Number"
    /\ error.kind = "Runtime"
    /\ error.msg = "Operands must be numbers."
    /\ exit_code = 70
    /\ stdout = <<>>

\* parameter lists
ParamLists ==
    {<<>>, <<<<1, S_a>>>>, <<<<1, S_a>>, <<1, S_b>>>>, <<<<1, S_x>>, <<2, S_a>>, <<3, S_b>>>>,
     <<<<1, S_b>>, <<1, S_a>>, <<1, S_f>>, <<1, S_x>>>>}

\* the compiler of a function with the parameters: the locals are the placeholder of
\* slot 0 and the parameters in their order, the i-th parameter resolves to slot i, and
\* a body that returns it reads it with GetLocal i
ParameterSlots(params) ==
    LET n0 == declare_params(CompilerNew("Function", <<>>), params)
    IN  /\ ~Failed(n0)
        /\ Len(n0.locals) = Len(params) + 1
        /\ n0.locals[1].name = <<>>
        /\ \A i \in 1..Len(params) :
               /\ n0.locals[i + 1] = Local(params[i][2], TRUE, 1)
               /\ resolve_local(n0, 1, params[i][2])
                      = [err |-> NoError, found |-> TRUE, slot |-> i]
               /\ LET c == compile_stmt(CompilerNew("Script", <<>>),
                                        SFun(S_g, 1, params,
                                             <<SReturn(1, TRUE, V(params[i][2]), 1)>>, 1))
                  IN  /\ ~Failed(c)
                      /\ c.heap[Len(c.heap)].arity = Len(params)
                      /\ SubSeq(c.heap[Len(c.heap)].chunk, 1, 3)
                             = <<Op("GetLocal"), i, Op("Return")>>

\* the frame the Call pushes begins at the callee: its slot 0 is the closure of the
\* frame and its slots 1..n are the arguments in their order
FrameOverCall ==
    LET n == Arg1
        base == frames'[Len(frames')].slots_start
    IN  /\ Len(frames') = Len(frames) + 1
        /\ stack'[base + 1] = Peek(n)
        /\ stack'[base + 1].tag = "Closure"
        /\ frames'[Len(frames')].closure = [id |-> stack'[base + 1].id, fn |-> stack'[base + 1].fn]
        /\ functions[frames'[Len(frames')].closure.fn].arity = n
        /\ \A i \in 1..n : stack'[base + 1 + i] = Peek(n - i)
        /\ Len(stack') = base + 1 + n

\* slot 0 of every frame of a running source unit holds the closure of the frame
CalleeInSlot0 ==
    (pc = "run" /\ input.kind = "source") =>
        \A k \in DOMAIN frames :
            /\ frames[k].slots_start < Len(stack)
            /\ stack[frames[k].slots_start + 1]
                   = ClosureV(frames[k].closure.id, frames[k].closure.fn)

\* C31: in a frame created by calling a compiled function of arity n with arguments
\* a1..an, slot 0 holds the callee closure and GetLocal i for 1 <= i <= n reads
\* argument ai: the compiler assigns the i-th declared parameter local slot i and the
\* VM sets the frame base to the callee's stack position
ParameterFrames ==
    /\ [](CompilingSource => \A params \in ParamLists : ParameterSlots(params))
    /\ []CalleeInSlot0
    /\ [][(CallOfClosure /\ CalleeArity = Arg1 /\ Len(frames) < FRAMES_MAX)
              => FrameOverCall]_vars
    /\ [][(Decodes("GetLocal") /\ IsOpCode(Instr) /\ last_op'.op = "GetLocal"
              /\ Frame.slots_start + Arg1 < Len(stack))
              => /\ stack' = Append(stack, stack[Frame.slots_start + Arg1 + 1])
                 /\ pc' = "run"]_vars
    /\ []((pc = "exited" /\ input = SourceFile(SourceOf(P_params)) /\ args.has_script
              /\ ~args.compile)
              => /\ error = NoError
                 /\ stdout = <<NumberLine(NumberV(1, 1)), NumberLine(NumberV(2, 1)),
                               NumberLine(NumberV(3, 1))>>)

\* the function of three parameters runs in its frame over the callee and the
\* arguments 1, 2, 3, and has just read its second parameter
ParameterFramesWitness ==
    /\ pc = "run"
    /\ input = SourceFile(SourceOf(P_params))
    /\ Len(frames) = 2
    /\ frames[2].slots_start = 1
    /\ stack[2].tag = "Closure"
    /\ SubSeq(stack, 3, 5) = <<NumberV(1, 1), NumberV(2, 1), NumberV(3, 1)>>
    /\ last_op.op = "GetLocal" /\ last_op.n = 2 /\ last_op.lhs = NumberV(2, 1)
    /\ Peek(0) = NumberV(2, 1)

\* the closures the VM holds: on the operand stack, in the globals, in the frames
LiveClosures ==
    {stack[i] : i \in {j \in DOMAIN stack : stack[j].tag = "Closure"}}
    \cup {globals[g] : g \in {h \in DOMAIN globals : globals[h].tag = "Closure"}}
    \cup {ClosureV(frames[k].closure.id, frames[k].closure.fn) : k \in DOMAIN frames}

\* the step executes a Closure instruction whose constant is a Function
ClosureStep ==
    /\ Decodes("Closure")
    /\ IsOpCode(Instr)
    /\ last_op'.op = "Closure"
    /\ last_op'.outcome = "ok"

\* the step pushes one value, a closure of the function of the constant that is Equal
\* to no closure the VM holds, and to itself
FreshClosurePushed ==
    LET new == stack'[Len(stack')]
    IN  /\ stack' = Append(stack, new)
        /\ new.tag = "Closure"
        /\ Fn.constants[Arg1 + 1].tag = "Function"
        /\ new.fn = Fn.constants[Arg1 + 1].fn
        /\ ValueEq(new, new)
        /\ \A old \in LiveClosures : ~ValueEq(new, old) /\ ~ValueEq(old, new)

\* the step reads a global or a local that holds a closure: the value pushed is Equal
\* to the one read, which stays where it was
CopyStep(op) ==
    /\ Decodes(op)
    /\ IsOpCode(Instr)
    /\ last_op'.op = op
    /\ last_op'.outcome = "ok"
CopiedClosureEqual ==
    /\ (CopyStep("GetGlobal") /\ globals[Fn.constants[Arg1 + 1].s].tag = "Closure")
           => /\ ValueEq(stack'[Len(stack')], globals'[Fn.constants[Arg1 + 1].s])
              /\ globals' = globals
              /\ Len(stack') = Len(stack) + 1
    /\ (CopyStep("GetLocal") /\ stack[Frame.slots_start + Arg1 + 1].tag = "Closure")
           => /\ ValueEq(stack'[Len(stack')], stack'[Frame.slots_start + Arg1 + 1])
              /\ stack' = Append(stack, stack'[Len(stack')])

\* C32: each execution of Closure k pushes a newly created Closure wrapping the
\* Function at constants[k]: two executions of the same Closure instruction yield
\* closures that are not Equal to each other, while any number of copies of one
\* closure obtained through GetGlobal, GetLocal or argument passing are Equal
FreshClosures ==
    /\ [][ClosureStep => FreshClosurePushed]_vars
    /\ [][CopiedClosureEqual]_vars
    /\ []((pc = "exited" /\ input = SourceFile(SourceOf(P_fresh_closures)) /\ args.has_script
              /\ ~args.compile)
              => error = NoError /\ stdout = <<TextLine(S_false)>>)
    /\ []((pc = "exited" /\ input = SourceFile(SourceOf(P_closure_copies)) /\ args.has_script
              /\ ~args.compile)
              => error = NoError /\ stdout = <<TextLine(S_true)>>)

\* the Closure instruction of g has run twice, and its two closures were compared:
\* they wrap the same function and are not Equal
FreshClosuresWitness ==
    /\ pc = "run"
    /\ input = SourceFile(SourceOf(P_fresh_closures))
    /\ last_op.op = "Equal"
    /\ last_op.lhs.tag = "Closure" /\ last_op.rhs.tag = "Closure"
    /\ last_op.lhs.fn = last_op.rhs.fn
    /\ last_op.lhs.id # last_op.rhs.id
    /\ Peek(0) = BoolV(FALSE)

\* the chunk ends in Nil, Return, both read as instructions when the code is read from
\* its start, and no forward jump of it goes past the Nil
EndsInReturn(f) ==
    LET len == Len(f.chunk)
        starts == InstrStarts(f.chunk, 0)
    IN  /\ len >= 2
        /\ len - 2 \in starts /\ OpAt(f, len - 2) = "Nil"
        /\ len - 1 \in starts /\ OpAt(f, len - 1) = "Return"
        /\ \A ip \in starts :
               OpAt(f, ip) \in {"Jump", "JumpIfFalsePop", "JumpIfFalsePeek", "JumpIfTruePeek"}
                   => TargetAt(f, ip) <= len - 2

\* a compiled source unit is running
RunningCompiled == pc = "run" /\ input.kind \in {"source", "empty"}

\* the ip of every frame is the index of a code byte of the function of the frame
IpInCode ==
    \A k \in DOMAIN frames : frames[k].ip < Len(functions[frames[k].closure.fn].chunk)

\* C33: the last instruction of every chunk the compiler produces (the script and every
\* nested function) is Return, preceded by the Nil it returns, so during execution of
\* compiled code the ip never reaches or passes the end of the code, including when a
\* patched forward jump targets the position just after the last statement
ChunksEndInReturn ==
    /\ [](Compiled_ =>
              /\ EndsInReturn(bytecode)
              /\ \A i \in DOMAIN functions : EndsInReturn(functions[i]))
    /\ [](RunningCompiled => IpInCode)
    /\ [][RunningCompiled => ~(last_op'.op = "" /\ last_op'.outcome = "panic")]_vars

\* the if without else that ends the script has jumped over its body, to the Nil before
\* the last Return
ChunksEndInReturnWitness ==
    /\ RunningCompiled
    /\ input = SourceFile(SourceOf(P_if))
    /\ last_op.op = "JumpIfFalsePop" /\ last_op.lhs = NilV
    /\ Ip = Len(Code) - 2
    /\ Instr = Op("Nil")
    /\ Code[Len(Code)] = Op("Return")

\* where the ip stands at the start of the k-th of the statements ss (or behind the
\* last), the stack holds one slot for each entry of the locals vector the compiler has
\* at that point
SlotsAtBoundaries(c, ss) ==
    \A k \in 1..(Len(ss) + 1) :
        Ip = EndOf(c, ss, k - 1) => Len(stack) - Frame.slots_start = HeightBefore(c, ss, k)

\* the statement boundaries of the script and of its blocks
SlotsMatchLocals ==
    RunningScript =>
        /\ SlotsAtBoundaries(CompilerNew("Script", <<>>), ScriptBody)
        /\ \A k \in 1..Len(ScriptBody) :
               ScriptBody[k].kind = "Block"
                   => SlotsAtBoundaries(InBlock(k), ScriptBody[k].stmts)

\* the step executes GetLocal s or SetLocal s in compiled code: slot s of the frame is
\* on the stack
LocalSlotOccupied ==
    (RunningCompiled /\ IsOpCode(Instr) /\ OpName(Instr) \in {"GetLocal", "SetLocal"}
        /\ last_op'.op = OpName(Instr))
        => /\ Frame.slots_start + Arg1 < Len(stack)
           /\ last_op'.outcome = "ok"

\* C34: in chunks produced by the compiler, whenever GetLocal s or SetLocal s executes,
\* frame.base + s is an occupied operand-stack slot holding the local the compiler
\* resolved to slot s: at every statement boundary the number of stack slots above
\* the frame base equals the number of locals in the compiler's locals vector at that
\* point, for every statement AST including a var or fun declaration used directly as
\* the body of an if or while inside a local scope
LocalSlots ==
    /\ []SlotsMatchLocals
    /\ [][LocalSlotOccupied]_vars

\* the function the compiler state has finished last
LastFunction(c) == c.heap[Len(c.heap)]

\* from the compiler state c inside a local scope, where the name can be declared: once
\* the name is a local of c, a use of it in c reads its slot, while a function declared
\* in c that returns the name reads a global of that name and one that assigns it sets
\* a global; a nested function that has the name as its parameter reads its own slot 1
EnclosingLocalIsGlobal(c, name) ==
    LET c1 == compile_stmt(c, Var1(name, N(1)))
        slot == Len(c.locals)
        reads == compile_stmt(c1, Fun1(S_g, <<>>, <<SReturn(1, TRUE, V(name), 1)>>))
        assigns == compile_stmt(c1, Fun1(S_g, <<>>, <<Expr1(EAssign(name, 1, N(2)))>>))
        own == compile_stmt(c1, Fun1(S_g, <<name>>, <<SReturn(1, TRUE, V(name), 1)>>))
        here == compile_expr(c1, V(name))
    IN  ~Failed(c1) =>
            /\ resolve_local(c1, 1, name) = [err |-> NoError, found |-> TRUE, slot |-> slot]
            /\ SubSeq(here.function.chunk, Len(c1.function.chunk) + 1,
                      Len(here.function.chunk)) = <<Op("GetLocal"), slot>>
            /\ ~Failed(reads)
            /\ LastFunction(reads).chunk
                   = <<Op("GetGlobal"), 0, Op("Return"), Op("Nil"), Op("Return")>>
            /\ LastFunction(reads).constants = <<StringV(name)>>
            /\ ~Failed(assigns)
            /\ LastFunction(assigns).chunk
                   = <<Op("Constant"), 1, Op("SetGlobal"), 0, Op("Pop"), Op("Nil"), Op("Return")>>
            /\ LastFunction(assigns).constants = <<StringV(name), NumberV(2, 1)>>
            /\ ~Failed(own)
            /\ LastFunction(own).chunk
                   = <<Op("GetLocal"), 1, Op("Return"), Op("Nil"), Op("Return")>>

\* C35: a name used inside a nested function body that is a local of an enclosing
\* function (and is not a parameter or local of the nested function itself) is compiled
\* as a global access (GetGlobal/SetGlobal with the name as a constant), never as
\* GetLocal/SetLocal of the enclosing function's slot; each function's locals vector
\* starts with only the anonymous slot-0 placeholder
NoCapture ==
    /\ CompilingSource =>
           /\ CompilerNew("Function", <<>>).locals = <<Local(<<>>, TRUE, 0)>>
           /\ CompilerNew("Script", <<>>).locals = <<Local(<<>>, TRUE, 0)>>
           /\ \A c \in LocalContexts : \A name \in VarNames :
                  (~Failed(c) /\ c.scope_depth > 0) => EnclosingLocalIsGlobal(c, name)
    /\ (pc = "exited" /\ input = SourceFile(SourceOf(P_enclosing)) /\ args.has_script
           /\ ~args.compile)
           => error = NoError /\ stdout = <<NumberLine(NumberV(6, 1))>>
    /\ (pc = "exited" /\ input = SourceFile(SourceOf(P_enclosing_param)) /\ args.has_script
           /\ ~args.compile)
           => /\ error.kind = "Runtime"
              /\ error.msg = "Undefined variable '{}'."
              /\ error.fmt_args = <<S_x>>
              /\ stdout = <<>>

\* the function nested in f has read a, the global 5 and not the local 1 of f
NoCaptureWitness ==
    /\ pc = "run"
    /\ input = SourceFile(SourceOf(P_enclosing))
    /\ Len(frames) = 3
    /\ last_op.op = "GetGlobal"
    /\ Peek(0) = NumberV(5, 1)
    /\ stack[frames[2].slots_start + 2] = NumberV(1, 1)

\* the (run_length, line) pairs of the bytes written for the lines
PairCount == (Len(ser_bytes) - 1) \div 5
PairLen(j) == ser_bytes[5 * (j - 1) + 1]
PairLine(j) == U32FromLe(SubSeq(ser_bytes, 5 * (j - 1) + 2, 5 * (j - 1) + 5))

\* the bytes are pairs of five bytes and one closing 0; every run length is between 1
\* and 255; a pair followed by a pair of the same line is full; and the runs of the
\* pairs, one after the other, are the lines that were written
PairsWritten ==
    /\ Len(ser_bytes) % 5 = 1
    /\ ser_bytes[Len(ser_bytes)] = 0
    /\ \A j \in 1..PairCount :
           /\ PairLen(j) \in 1..U8Max
           /\ (j < PairCount /\ PairLine(j) = PairLine(j + 1)) => PairLen(j) = U8Max
    /\ RunsOf([j \in 1..PairCount |-> <<PairLen(j), PairLine(j)>>]) = ser_in.f.lines

\* C36: line numbers are serialized as (run_length, line) pairs in which every
\* run_length is between 1 and 255, consecutive equal lines are merged up to 255 per
\* pair, and the sequence ends with a single run_length 0 byte; decoding the pairs
\* reproduces the original lines sequence exactly, for every lines sequence including
\* runs longer than 255
LineRuns ==
    /\ pc \in {"lines_read", "lines_done"} => PairsWritten
    /\ pc = "lines_done" =>
           /\ ser_out.done
           /\ ser_out.err = NoError
           /\ ser_out.f.lines = ser_in.f.lines

\* a run of 511 equal lines was written as two full pairs and a pair of one, and read
\* back as it was
LineRunsWitness ==
    /\ pc = "lines_done"
    /\ ser_in.f.lines = [i \in 1..511 |-> 70000]
    /\ ser_bytes = <<255, 112, 17, 1, 0, 255, 112, 17, 1, 0, 1, 112, 17, 1, 0, 0>>
    /\ ser_out.f.lines = ser_in.f.lines

\* the driver is about to call Vm::interpret
InterpretCalled == pc = "interpret"

\* between the end of one interpret and the start of the next the driver leaves the
\* Vm alone: the globals, the stack and the frames are those the last line left
VmKeptBetweenLines ==
    pc \in {"prompt", "compile", "interpret"}
        => /\ globals' = globals
           /\ Len(stack') >= Len(stack)
           /\ SubSeq(stack', 1, Len(stack)) = stack

\* a global a line has defined and a later line has assigned is read by the line after
\* with the value assigned
GlobalsOfEarlierLines ==
    (pc = "prompt" /\ lines_read = 2 /\ input = SourceFile(SourceOf(P_increment))
        /\ S_a \in DOMAIN globals)
        => globals[S_a] = NumberV(2, 1)

\* a later line of the REPL sees the globals of the lines before it
GlobalsShared ==
    /\ [][VmKeptBetweenLines]_vars
    /\ []GlobalsOfEarlierLines
    /\ []((pc = "prompt" /\ lines_read = 2 /\ input = SourceFile(SourceOf(P_get)))
              => Len(stdout) = 1 /\ stdout[1] = NumberLine(NumberV(1, 1)))

\* C37: the same Vm is used for every REPL line, so a global defined by one
\* successfully executed line is visible with its last assigned value to every later
\* line, and every interpret call the driver makes starts with an empty operand stack
\* and an empty frame stack
ReplSharesVm ==
    /\ GlobalsShared
    /\ [](InterpretCalled => stack = <<>> /\ frames = <<>>)

\* the expression holds a call, the statement a while or a call
RECURSIVE ExprCalls(_)
ExprCalls(e) ==
    CASE e.kind = "Call" -> TRUE
      [] e.kind = "Assign" -> ExprCalls(e.value)
      [] e.kind = "Binary" -> ExprCalls(e.lhs) \/ ExprCalls(e.rhs)
      [] e.kind = "Unary" -> ExprCalls(e.inner)
      [] OTHER -> FALSE
RECURSIVE StmtLoopsOrCalls(_)
StmtLoopsOrCalls(s) ==
    CASE s.kind = "While" -> TRUE
      [] s.kind = "Var" -> s.has_init /\ ExprCalls(s.init)
      [] s.kind \in {"Expr", "Print"} -> ExprCalls(s.expr)
      [] s.kind = "Return" -> s.has_expr /\ ExprCalls(s.expr)
      [] s.kind = "Fun" -> \E i \in DOMAIN s.body : StmtLoopsOrCalls(s.body[i])
      [] s.kind = "If" -> \/ ExprCalls(s.cond)
                          \/ StmtLoopsOrCalls(s.then)
                          \/ s.has_else /\ StmtLoopsOrCalls(s.else_)
      [] s.kind = "Block" -> \E i \in DOMAIN s.stmts : StmtLoopsOrCalls(s.stmts[i])

\* the source unit that runs, or is about to, has no while statement and no call
Straight ==
    /\ input.kind = "source"
    /\ parse(input.source).ok
    /\ \A i \in DOMAIN ScriptBody : ~StmtLoopsOrCalls(ScriptBody[i])

\* no instruction of the chunk is a Loop or a Call, and every jump of it goes forward
OnlyForward(f) ==
    \A ip \in InstrStarts(f.chunk, 0) :
        /\ OpAt(f, ip) \notin {"Loop", "Call"}
        /\ OpAt(f, ip) \in {"Jump", "JumpIfFalsePop", "JumpIfFalsePeek", "JumpIfTruePeek"}
               => TargetAt(f, ip) >= ip + 3

\* the chunk of the script is straight, and while it runs the script frame is the only
\* frame
StraightChunk ==
    /\ (pc = "interpret" /\ Straight) => OnlyForward(bytecode)
    /\ (pc = "run" /\ Straight) => Len(frames) = 1 /\ OnlyForward(Fn) /\ Ip < Len(Code)

\* a step of the run either ends it or takes the ip of the script frame further
IpIncreases ==
    (pc = "run" /\ Straight /\ pc' = "run")
        => /\ Len(frames') = 1
           /\ frames'[1].closure = frames[1].closure
           /\ frames'[1].ip > frames[1].ip

\* the step that ends the run is the last Return, or raises a runtime error (the block
\* whose if declares a variable as its branch ends in the panic of its GetLocal instead)
RunEnds ==
    (pc = "run" /\ Straight /\ pc' # "run")
        => \/ last_op'.op = "Return" /\ last_op'.outcome = "ok" /\ frames' = <<>>
                 /\ Ip = Len(Code) - 1
           \/ last_op'.outcome = "error" /\ error'.kind = "Runtime"
           \/ input = SourceFile(SourceOf(P_if_decl)) /\ last_op'.op = "GetLocal"
                 /\ last_op'.outcome = "panic"

-----------------------------------------------------------------------------
(* C39: the collector and the roots *)

\* the closures and functions the VM can still get at: those reached from the operand
\* stack, the globals and the closures of the frames through every Gc pointer held
Reachable == Marked(HeldFields, stack, globals, frames)

\* a reachable function is still in the heap, with its chunk
Readable ==
    \A obj \in Reachable :
        obj[1] = "Function" => obj[2] \in DOMAIN functions /\ obj[2] >= 1

\* an instruction that allocates, at which a collection may have run
AllocatingStep == pc = "run" /\ last_op'.op \in Allocates /\ last_op'.outcome = "ok"

\* a collection frees nothing that was reachable when it ran and changes no value of
\* the globals or of the stack below the operands of the instruction
CollectionKeepsRoots ==
    AllocatingStep =>
        /\ (collected' \ collected) \cap Reachable = {}
        /\ globals' = globals
        /\ functions' = functions
        /\ \A i \in DOMAIN stack' \cap DOMAIN stack : i < Len(stack') => stack'[i] = stack[i]

\* the script of P_garbage as a script: after the calls of f and the concatenation it
\* prints hia and true
GarbageScriptPrints ==
    (pc = "exited" /\ args.has_script /\ ~args.compile /\ input = SourceFile(SourceOf(P_garbage)))
        => /\ stdout = <<TextLine(S_hi \o S_a), TextLine(S_true)>>
           /\ exit_code = 0

====
